---- MODULE Spec2Model ----
(***************************************************************************)
(* Model of the database scan commands of the cadence admin CLI            *)
(* (tools/cli/admin_commands.go): AdminDBScan, which decodes the input     *)
(* file and calls checkExecution on each request; checkExecution, which    *)
(* fetches one execution through the persistence retryer and runs the      *)
(* invariant manager on it; AdminDBScanUnsupportedWorkflow, which calls    *)
(* listExecutionsByShardID on each shard of a range; and                   *)
(* listExecutionsByShardID, which walks one shard with the paging          *)
(* iterator.  The retryer, the invariant manager and the paging            *)
(* iterator live in other packages of the repository (common/persistence,  *)
(* common/reconciliation/invariant, common/collection); they are modelled  *)
(* from their specified contract.                                          *)
(***************************************************************************)
EXTENDS Integers, Sequences, FiniteSets, TLC

\* ------------------------------------------------------------------ bounds
\* longest list of invariant factories handed to checkExecution
MaxInvariants == 3
\* largest attempt bound of the persistence retry policy
MaxPolicyAttempts == 3
\* most executions stored in one shard
MaxItems == 3
\* most pages the store splits one shard's listing into
MaxPages == 3
\* most executions stored in one shard in the runs of the range scan
MaxShardItems == 2
\* most records in the input file of the targeted scan
MaxInput == 3
\* most execution requests among them
MaxRequests == 2

\* ------------------------------------------------------- values and helpers
Nil == "nil"

WorkflowIDs == {"wf-A", "wf-B"}

\* executions.InvariantFactory values and the invariant each one constructs
InvariantFactories == {"NewHistoryExists", "NewOpenCurrentExecution", "NewConcreteExecutionExists"}

InvariantNames == {"history_exists", "open_current_execution", "concrete_execution_exists"}

FactoryInvariant(fn) ==
    CASE fn = "NewHistoryExists" -> "history_exists"
      [] fn = "NewOpenCurrentExecution" -> "open_current_execution"
      [] fn = "NewConcreteExecutionExists" -> "concrete_execution_exists"

CheckResultTypeHealthy == "healthy"

CheckResultTypeCorrupted == "corrupted"

CheckResultTypeFailed == "failed"

CheckResultTypes == {CheckResultTypeHealthy, CheckResultTypeCorrupted, CheckResultTypeFailed}

\* errors of the underlying execution store
TransientErrors == {"Timeout", "ServiceBusy"}

NonRetryableErrors == {"EntityNotExists", "BadRequest"}

StoreErrors == TransientErrors \cup NonRetryableErrors

NonEmptySeqsUpTo(S, n) == UNION {[1..k -> S] : k \in 1..n}

Permute(s, p) == [i \in 1..Len(s) |-> s[p[i]]]

\* ---------------------------------------------------------------- state
VARIABLES
    cpc,            \* checkExecution: position in the function
    req,            \* checkExecution: req.WorkflowID
    invariants,     \* checkExecution: the invariant factories, in caller order
    maxAttempts,    \* attempt bound of the retry policy given to the retryer
    execManager,    \* execution store handle: Nil, "open" or "closed"
    historyV2Mgr,   \* history store handle: Nil, "open", "closed" or "invalid"
    ctxState,       \* context: Nil, "live" or "cancelled"
    storeCalls,     \* answers of the underlying store to the wrapped call in progress
    fetchErr,       \* error returned by the wrapped call (Nil: none)
    execution,      \* fetched snapshot, or NoExecution
    ivs,            \* invariants constructed from the factories
    checkCalls,     \* invariants whose Check ran, in call order
    result,         \* invariant.ManagerCheckResult being built by RunChecks
    ret             \* what checkExecution returned, or Nil

checkVars == <<cpc, req, invariants, maxAttempts, execManager, historyV2Mgr, ctxState,
               storeCalls, fetchErr, execution, ivs, checkCalls, result, ret>>

VARIABLES
    shardPages,         \* the shard's concrete executions, page by page, as the store lists them
    failAt,             \* ordinal of the ListConcreteExecutions call that fails (0: none)
    failErr,            \* the error of that call
    lpc,                \* listExecutionsByShardID: position in the function
    client,             \* execution store handle of the shard: Nil, "open" or "closed"
    executionIterator,  \* the paging iterator's fields
    listCalls,          \* ListConcreteExecutions calls made so far: request and response
    yielded,            \* items returned by Next so far, in order
    lastNext,           \* what the last completed Next returned
    outputFile,         \* lines written to the output file and how many of them are synced
    listErr,            \* error returned by listExecutionsByShardID (NoError: nil)
    ipc,                \* free client of the iterator: the call in progress
    hasNextRet,         \* what the last completed HasNext returned
    callStart,          \* iterator fields and number of store calls when the call in progress began
    peeks               \* HasNext calls completed since the last Next (2: two or more)

rangeVars == <<shardPages, failAt, failErr, lpc, client, executionIterator, listCalls, yielded,
               lastNext, outputFile, listErr>>

clientVars == <<ipc, hasNextRet, callStart, peeks>>

VARIABLES
    input,          \* AdminDBScan: the records of the input file, in file order
    dec,            \* AdminDBScan: the JSON decoder over the input
    decodeCalls,    \* number of dec.Decode calls made
    data,           \* AdminDBScan: the execution requests decoded so far
    spc,            \* AdminDBScan: position in the function
    scanIdx,        \* index of the element of data the range loop is at (0: none yet)
    stdout,         \* the records printed to standard output
    stderr,         \* the lines printed to standard error
    scanErr,        \* AdminDBScan: the returned error
    storeOutcomes   \* what the environment answered for each execution taken from data

scanVars == <<input, dec, decodeCalls, data, spc, scanIdx, stdout, stderr, scanErr,
              storeOutcomes>>

VARIABLES
    rpc,            \* AdminDBScanUnsupportedWorkflow: position in the function
    startShardID,   \* the lower shard bound flag
    endShardID,     \* the upper shard bound flag
    shardID,        \* the shard being scanned (the loop variable i)
    completed,      \* shards whose "scan operation is completed" message was printed
    rangeErr,       \* AdminDBScanUnsupportedWorkflow: the returned error
    storeLines      \* reset commands of the unsupported executions the store holds in
                    \* the shards scanned to their end, in shard and listing order

cmdVars == <<rpc, startShardID, endShardID, shardID, completed, rangeErr, storeLines>>

VARIABLES
    fpc,            \* failover commands: position in the command
    command,        \* which failover command runs: "start" or "rollback"
    flags,          \* the command line flags (c *cli.Context)
    params,         \* the startParams handed to failoverStart
    requests,       \* the calls made on the frontend client, each with its answer
    queryResult,    \* AdminFailoverRollback: the local queryResult
    queryLog,       \* the query results received so far, in order
    foErr,          \* the error the failover command returned
    foOut           \* the lines the failover command printed

failoverVars == <<fpc, command, flags, params, requests, queryResult, queryLog, foErr, foOut>>

VARIABLES
    dpc,            \* AdminDeleteWorkflow: position in the function
    ms,             \* the workflow's mutable state in the database
    remote,         \* the remote flag
    skipError,      \* the skip-errors flag
    branchTokens,   \* the branch tokens of the workflow's mutable state
    branchIdx,      \* the branch token the loop is at
    storeOps,       \* the calls made on the stores and the admin client, with outcomes
    delErr,         \* the error AdminDeleteWorkflow returned
    delOut          \* the lines AdminDeleteWorkflow printed

deleteVars == <<dpc, ms, remote, skipError, branchTokens, branchIdx, storeOps, delErr, delOut>>

vars == <<checkVars, rangeVars, clientVars, scanVars, cmdVars, failoverVars, deleteVars>>

EmptyManagerCheckResult == [CheckResultType |-> "", CheckResults |-> <<>>]

\* no snapshot (a nil execution)
NoExecution == [workflowID |-> Nil]

\* ------------------------------------------------ invariant manager (RunChecks)
\* faulty variant: a corrupted aggregate is not raised to failed
nextCheckResultType_keepCorrupted(current, next) ==
    IF current = CheckResultTypeHealthy THEN next ELSE current

\* severity order of the aggregate: failed > corrupted > healthy
nextCheckResultType(current, next) ==
    CASE current = CheckResultTypeHealthy -> next
      [] current = CheckResultTypeCorrupted ->
            IF next = CheckResultTypeFailed THEN CheckResultTypeFailed ELSE current
      [] current = CheckResultTypeFailed -> current

\* Check of one invariant on a snapshot: the snapshot fixes each invariant's verdict
Check(iv, ex) == [InvariantName |-> iv, CheckResultType |-> ex.verdict[iv]]

NewManagerCheckResult == [CheckResultType |-> CheckResultTypeHealthy, CheckResults |-> <<>>]

\* one iteration of the RunChecks loop
RunChecksIteration(res, iv, ex) ==
    LET checkResult == Check(iv, ex) IN
    [CheckResultType |-> nextCheckResultType(res.CheckResultType, checkResult.CheckResultType),
     CheckResults |-> Append(res.CheckResults, checkResult)]

RECURSIVE RunChecksFrom(_, _, _)
RunChecksFrom(res, list, ex) ==
    IF list = <<>> THEN res
    ELSE RunChecksFrom(RunChecksIteration(res, Head(list), ex), Tail(list), ex)

RunChecks(list, ex) == RunChecksFrom(NewManagerCheckResult, list, ex)

\* ------------------------------------------------ persistence retryer
IsTransientError(e) == e \in TransientErrors

\* faulty variant: every error is retried, whatever its class
RetryDecision_retryAll(calls, attempts) ==
    LET last == calls[Len(calls)] IN
    IF last = "ok" THEN "success"
    ELSE IF Len(calls) < attempts THEN "retry"
    ELSE "fail"

\* what the retryer does after the underlying call answered: calls is the
\* sequence of answers so far (the last one is the answer just received)
RetryDecision(calls, attempts) ==
    LET last == calls[Len(calls)] IN
    IF last = "ok" THEN "success"
    ELSE IF IsTransientError(last) /\ Len(calls) < attempts THEN "retry"
    ELSE "fail"

\* ------------------------------------------------ checkExecution
\* faulty variant: the fetcher is handed the bare store, without the retryer
FetcherDecision_rawStore(calls, attempts) ==
    IF calls[Len(calls)] = "ok" THEN "success" ELSE "fail"

\* the fetcher is handed pr, the retryer built over execManager and
\* historyV2Mgr with the persistence retry policy, so its store call is retried
FetcherDecision(calls, attempts) == RetryDecision(calls, attempts)

\* faulty variant: the last factory is left out
BuildInvariants_dropLast(fns) == [i \in 1..(Len(fns) - 1) |-> FactoryInvariant(fns[i])]

\* the loop that turns the factories into invariants, in order
BuildInvariants(fns) == [i \in 1..Len(fns) |-> FactoryInvariant(fns[i])]

\* the fetched snapshots, told apart by what the invariants of the list find
\* in them (an invariant that is never built never looks at the snapshot)
SnapshotVerdicts(fns) ==
    {v \in [InvariantNames -> CheckResultTypes] :
        \A n \in InvariantNames \ {FactoryInvariant(fns[i]) : i \in 1..Len(fns)} :
            v[n] = CheckResultTypeHealthy}

ErrorReturn(msg) == [execution |-> NoExecution, result |-> EmptyManagerCheckResult, err |-> msg]

\* initializeExecutionStore; on error return at once (nothing deferred yet)
InitializeExecutionStore ==
    /\ cpc = "start"
    /\ \/ /\ execManager' = "open"
          /\ cpc' = "execStoreOpen"
          /\ ret' = ret
       \/ /\ execManager' = execManager
          /\ cpc' = "returned"
          /\ ret' = ErrorReturn("Error initializing exec manager ")
    /\ UNCHANGED <<req, invariants, maxAttempts, historyV2Mgr, ctxState, storeCalls,
                   fetchErr, execution, ivs, checkCalls, result>>
    /\ UNCHANGED <<failoverVars, deleteVars, rangeVars, clientVars, scanVars, cmdVars>>

\* initializeHistoryManager: its error is assigned and never examined; the
\* retryer is then built over both handles
InitializeHistoryManager ==
    /\ cpc = "execStoreOpen"
    /\ historyV2Mgr' \in {"open", "invalid"}
    /\ cpc' = "retryerBuilt"
    /\ UNCHANGED <<req, invariants, maxAttempts, execManager, ctxState, storeCalls,
                   fetchErr, execution, ivs, checkCalls, result, ret>>
    /\ UNCHANGED <<failoverVars, deleteVars, rangeVars, clientVars, scanVars, cmdVars>>

\* faulty variant: the deferred Close is left out
CloseHandles_left(h) == h

\* deferred calls run at return, last deferred first
CloseHandles(h) == IF h = "open" THEN "closed" ELSE h

\* newContext; on error return, running the deferred Close calls
NewContext ==
    /\ cpc = "retryerBuilt"
    /\ \/ /\ ctxState' = "live"
          /\ cpc' = "fetching"
          /\ UNCHANGED <<execManager, historyV2Mgr, ret>>
       \/ /\ ctxState' = ctxState
          /\ cpc' = "returned"
          /\ execManager' = CloseHandles(execManager)
          /\ historyV2Mgr' = CloseHandles(historyV2Mgr)
          /\ ret' = ErrorReturn("Error creating new context ")
    /\ UNCHANGED <<req, invariants, maxAttempts, storeCalls, fetchErr, execution, ivs,
                   checkCalls, result>>
    /\ UNCHANGED <<failoverVars, deleteVars, rangeVars, clientVars, scanVars, cmdVars>>

\* fetcher(ctx, pr, req): one underlying store call made by the retryer, and
\* the retryer's decision on its answer
FetcherAttempt ==
    /\ cpc = "fetching"
    /\ \E answer \in {"ok"} \cup StoreErrors :
        LET calls == Append(storeCalls, answer)
            decision == FetcherDecision(calls, maxAttempts) IN
        /\ storeCalls' = calls
        /\ \/ /\ decision = "retry"
              /\ UNCHANGED <<cpc, fetchErr, execution>>
           \/ /\ decision = "success"
              /\ cpc' = "fetched"
              /\ fetchErr' = Nil
              /\ \E v \in SnapshotVerdicts(invariants) :
                    execution' = [workflowID |-> req, verdict |-> v]
           \/ /\ decision = "fail"
              /\ cpc' = "fetched"
              /\ fetchErr' = answer
              /\ execution' = NoExecution
    /\ UNCHANGED <<req, invariants, maxAttempts, execManager, historyV2Mgr, ctxState,
                   ivs, checkCalls, result, ret>>
    /\ UNCHANGED <<failoverVars, deleteVars, rangeVars, clientVars, scanVars, cmdVars>>

\* after the fetch: return its error, or build the invariants and enter RunChecks
AfterFetch ==
    /\ cpc = "fetched"
    /\ \/ /\ fetchErr # Nil
          /\ cpc' = "returned"
          /\ ctxState' = "cancelled"
          /\ execManager' = CloseHandles(execManager)
          /\ historyV2Mgr' = CloseHandles(historyV2Mgr)
          /\ ret' = ErrorReturn("Error in fetching context: ")
          /\ UNCHANGED <<ivs, result>>
       \/ /\ fetchErr = Nil
          /\ cpc' = "checking"
          /\ ivs' = BuildInvariants(invariants)
          /\ result' = NewManagerCheckResult
          /\ UNCHANGED <<ctxState, execManager, historyV2Mgr, ret>>
    /\ storeCalls' = <<>>
    /\ UNCHANGED <<req, invariants, maxAttempts, fetchErr, execution, checkCalls>>
    /\ UNCHANGED <<failoverVars, deleteVars, rangeVars, clientVars, scanVars, cmdVars>>

\* RunChecks: the Check of the next invariant and the update of the aggregate
RunChecksStep ==
    /\ cpc = "checking"
    /\ Len(checkCalls) < Len(ivs)
    /\ LET iv == ivs[Len(checkCalls) + 1] IN
        /\ checkCalls' = Append(checkCalls, iv)
        /\ result' = RunChecksIteration(result, iv, execution)
    /\ UNCHANGED <<cpc, req, invariants, maxAttempts, execManager, historyV2Mgr, ctxState,
                   storeCalls, fetchErr, execution, ivs, ret>>
    /\ UNCHANGED <<failoverVars, deleteVars, rangeVars, clientVars, scanVars, cmdVars>>

\* RunChecks is through: return the execution and the manager result
CheckExecutionReturn ==
    /\ cpc = "checking"
    /\ Len(checkCalls) = Len(ivs)
    /\ cpc' = "returned"
    /\ ret' = [execution |-> execution, result |-> result, err |-> Nil]
    /\ ctxState' = "cancelled"
    /\ execManager' = CloseHandles(execManager)
    /\ historyV2Mgr' = CloseHandles(historyV2Mgr)
    /\ UNCHANGED <<req, invariants, maxAttempts, storeCalls, fetchErr, execution, ivs,
                   checkCalls, result>>
    /\ UNCHANGED <<failoverVars, deleteVars, rangeVars, clientVars, scanVars, cmdVars>>

\* ------------------------------------------------ execution store of one shard
\* the three fields listExecutionsByShardID reads, in the combinations that
\* decide its test: unsupported, has version histories, closed, no execution info
ExecutionKinds ==
    { [ExecutionInfo |-> TRUE, CloseStatus |-> 0, VersionHistories |-> FALSE],
      [ExecutionInfo |-> TRUE, CloseStatus |-> 0, VersionHistories |-> TRUE],
      [ExecutionInfo |-> TRUE, CloseStatus |-> 1, VersionHistories |-> FALSE],
      [ExecutionInfo |-> FALSE, CloseStatus |-> 0, VersionHistories |-> FALSE] }

\* persistence.ListConcreteExecutionsEntity number i of the shard
Entity(i, k) ==
    [DomainID |-> "domain-1", WorkflowID |-> i, RunID |-> i,
     ExecutionInfo |-> k.ExecutionInfo, CloseStatus |-> k.CloseStatus,
     VersionHistories |-> k.VersionHistories]

\* a nil item
NoItem == [RunID |-> 0]

RECURSIVE SumTo(_, _)
SumTo(sz, k) == IF k = 0 THEN 0 ELSE sz[k] + SumTo(sz, k - 1)

\* the items cut into pages of the sizes sz (a page may be empty)
PagesOf(items, sz) ==
    [k \in 1..Len(sz) |-> SubSeq(items, SumTo(sz, k - 1) + 1, SumTo(sz, k))]

\* every way the store can hold and page up to maxItems executions of the
\* kinds, in up to maxPages pages
Listings(kinds, maxItems, maxPages) ==
    UNION { UNION { { PagesOf([i \in 1..n |-> Entity(i, ks[i])], sz) :
                        ks \in [1..n -> kinds],
                        sz \in {f \in [1..p -> 0..n] : SumTo(f, p) = n} } :
                    p \in 1..maxPages } :
            n \in 0..maxItems }

\* every way the store can hold and page up to MaxItems executions of the kinds
ShardListings(kinds) == Listings(kinds, MaxItems, MaxPages)

RECURSIVE Flatten(_)
Flatten(pages) == IF pages = <<>> THEN <<>> ELSE Head(pages) \o Flatten(Tail(pages))

\* the shards of the cluster in the runs of the range scan
ShardIDs == {0, 1, 2}

\* the listing of shard s: workflow ids are unique across the shards
InShard(s, pages) ==
    [k \in 1..Len(pages) |->
        [j \in 1..Len(pages[k]) |-> [pages[k][j] EXCEPT !.WorkflowID = <<s, @>>]]]

\* what the store can hold in one shard in the runs of the range scan: up to
\* MaxShardItems executions of every kind, listed in one or two pages
RangeListings == Listings(ExecutionKinds, MaxShardItems, 2)

\* the reset commands of the executions in the listing that are open, have
\* execution info and have no version histories, in listing order
StoredResetCommands(pages) ==
    LET sel == SelectSeq(Flatten(pages),
                    LAMBDA e : e.ExecutionInfo /\ e.CloseStatus = 0 /\ ~e.VersionHistories) IN
    [i \in 1..Len(sel) |->
        [domain |-> sel[i].DomainID, wid |-> sel[i].WorkflowID, rid |-> sel[i].RunID]]

\* the store's answer to the ordinal-th list request: the page after the one
\* the token names, with the token of that page (empty on the last page)
ListConcreteExecutions(request, ordinal) ==
    IF ordinal = failAt
    THEN [Executions |-> <<>>, PageToken |-> <<>>, err |-> failErr]
    ELSE LET idx == IF request.PageToken = <<>> THEN 1 ELSE request.PageToken[1] + 1 IN
         [Executions |-> shardPages[idx],
          PageToken |-> IF idx < Len(shardPages) THEN <<idx>> ELSE <<>>,
          err |-> Nil]

\* ------------------------------------------------ listExecutionsByShardID: paginationFunc
\* faulty variant: the request is sent without the page token
paginationFunc_noPageToken(paginationToken, ordinal) ==
    LET request == [PageToken |-> <<>>]
        resp == ListConcreteExecutions(request, ordinal) IN
    IF resp.err # Nil
    THEN [request |-> request, resp |-> resp, items |-> <<>>, token |-> <<>>, err |-> resp.err]
    ELSE [request |-> request, resp |-> resp, items |-> resp.Executions,
          token |-> resp.PageToken, err |-> Nil]

\* faulty variant: the response's page token is not returned
paginationFunc_dropsNextToken(paginationToken, ordinal) ==
    LET request == [PageToken |-> paginationToken]
        resp == ListConcreteExecutions(request, ordinal) IN
    IF resp.err # Nil
    THEN [request |-> request, resp |-> resp, items |-> <<>>, token |-> <<>>, err |-> resp.err]
    ELSE [request |-> request, resp |-> resp, items |-> resp.Executions,
          token |-> <<>>, err |-> Nil]

\* faulty variant: a failed request is returned as an empty last page
paginationFunc_swallowsError(paginationToken, ordinal) ==
    LET request == [PageToken |-> paginationToken]
        resp == ListConcreteExecutions(request, ordinal) IN
    IF resp.err # Nil
    THEN [request |-> request, resp |-> resp, items |-> <<>>, token |-> <<>>, err |-> Nil]
    ELSE [request |-> request, resp |-> resp, items |-> resp.Executions,
          token |-> resp.PageToken, err |-> Nil]

\* one page request: the token goes into the request as given, the response's
\* executions and token come back as given, an error comes back alone
paginationFunc(paginationToken, ordinal) ==
    LET request == [PageToken |-> paginationToken]
        resp == ListConcreteExecutions(request, ordinal) IN
    IF resp.err # Nil
    THEN [request |-> request, resp |-> resp, items |-> <<>>, token |-> <<>>, err |-> resp.err]
    ELSE [request |-> request, resp |-> resp, items |-> resp.Executions,
          token |-> resp.PageToken, err |-> Nil]

\* ------------------------------------------------ paging iterator
ErrNoMoreItems == "no more items"

NewIterator == [pageToken |-> <<>>, pageErr |-> Nil, pageItems |-> <<>>, nextPageItemIndex |-> 0]

\* refill the one-page buffer; calls gets the request, the response, and what
\* the iterator held when it asked
getNextPage(it, calls) ==
    LET r == paginationFunc(it.pageToken, Len(calls) + 1)
        entry == [request |-> r.request, resp |-> r.resp,
                  pending |-> Len(it.pageItems) - it.nextPageItemIndex,
                  token |-> it.pageToken] IN
    [iter |-> IF r.err = Nil
              THEN [pageToken |-> r.token, pageErr |-> Nil, pageItems |-> r.items,
                    nextPageItemIndex |-> 0]
              ELSE [pageToken |-> <<>>, pageErr |-> r.err, pageItems |-> <<>>,
                    nextPageItemIndex |-> 0],
     calls |-> Append(calls, entry)]

\* faulty variant: HasNext takes the pending page error away
HasNextStep_clearsError(it, calls) ==
    IF it.pageErr # Nil
    THEN [iter |-> [it EXCEPT !.pageErr = Nil], calls |-> calls, done |-> TRUE, ret |-> TRUE]
    ELSE IF it.nextPageItemIndex < Len(it.pageItems)
    THEN [iter |-> it, calls |-> calls, done |-> TRUE, ret |-> TRUE]
    ELSE IF it.pageToken # <<>>
    THEN LET g == getNextPage(it, calls) IN
         [iter |-> g.iter, calls |-> g.calls, done |-> FALSE, ret |-> FALSE]
    ELSE [iter |-> it, calls |-> calls, done |-> TRUE, ret |-> FALSE]

\* one round of HasNext: answer, or refill the buffer and look again
HasNextStep(it, calls) ==
    IF it.pageErr # Nil
    THEN [iter |-> it, calls |-> calls, done |-> TRUE, ret |-> TRUE]
    ELSE IF it.nextPageItemIndex < Len(it.pageItems)
    THEN [iter |-> it, calls |-> calls, done |-> TRUE, ret |-> TRUE]
    ELSE IF it.pageToken # <<>>
    THEN LET g == getNextPage(it, calls) IN
         [iter |-> g.iter, calls |-> g.calls, done |-> FALSE, ret |-> FALSE]
    ELSE [iter |-> it, calls |-> calls, done |-> TRUE, ret |-> FALSE]

\* faulty variant: Next on an exhausted iterator returns nil without an error
NextStep_silentWhenExhausted(it, calls) ==
    LET h == HasNextStep(it, calls) IN
    IF ~h.done
    THEN [iter |-> h.iter, calls |-> h.calls, done |-> FALSE, item |-> NoItem, err |-> Nil]
    ELSE IF ~h.ret
    THEN [iter |-> it, calls |-> calls, done |-> TRUE, item |-> NoItem, err |-> Nil]
    ELSE IF it.pageErr # Nil
    THEN [iter |-> [it EXCEPT !.pageErr = Nil], calls |-> calls, done |-> TRUE,
          item |-> NoItem, err |-> it.pageErr]
    ELSE [iter |-> [it EXCEPT !.nextPageItemIndex = @ + 1], calls |-> calls, done |-> TRUE,
          item |-> it.pageItems[it.nextPageItemIndex + 1], err |-> Nil]

\* one round of Next: on an exhausted iterator fail with "no more items",
\* hand over a pending page error once, else hand over the next buffered item
NextStep(it, calls) ==
    LET h == HasNextStep(it, calls) IN
    IF ~h.done
    THEN [iter |-> h.iter, calls |-> h.calls, done |-> FALSE, item |-> NoItem, err |-> Nil]
    ELSE IF ~h.ret
    THEN [iter |-> it, calls |-> calls, done |-> TRUE, item |-> NoItem, err |-> ErrNoMoreItems]
    ELSE IF it.pageErr # Nil
    THEN [iter |-> [it EXCEPT !.pageErr = Nil], calls |-> calls, done |-> TRUE,
          item |-> NoItem, err |-> it.pageErr]
    ELSE [iter |-> [it EXCEPT !.nextPageItemIndex = @ + 1], calls |-> calls, done |-> TRUE,
          item |-> it.pageItems[it.nextPageItemIndex + 1], err |-> Nil]

\* HasNext answers false without asking the source
Exhausted(it) ==
    it.pageErr = Nil /\ it.nextPageItemIndex >= Len(it.pageItems) /\ it.pageToken = <<>>

\* ------------------------------------------------ listExecutionsByShardID
NoError == [msg |-> Nil, cause |-> Nil]

PrintableError(msg, cause) == [msg |-> msg, cause |-> cause]

NoNext == [item |-> NoItem, err |-> Nil]

\* faulty variant: the version histories are not looked at
IsUnsupportedWorkflow_anyHistories(e) ==
    e.ExecutionInfo /\ e.CloseStatus = 0

\* the test for an unsupported workflow
IsUnsupportedWorkflow(e) ==
    e.ExecutionInfo /\ e.CloseStatus = 0 /\ ~e.VersionHistories

\* the reset command written for an unsupported workflow
ResetCommand(e) == [domain |-> e.DomainID, wid |-> e.WorkflowID, rid |-> e.RunID]

\* faulty variant: the message does not name the shard
FailedToScanShard_noShard(id) == "Failed to scan shard ID"

\* fmt.Sprintf("Failed to scan shard ID: %v for unsupported workflow. Please retry.", shardID)
FailedToScanShard(id) == "Failed to scan shard ID: " \o ToString(id)

\* initializeExecutionStore for the shard; on error return at once
OpenShardStore ==
    /\ lpc = "start"
    /\ \/ /\ client' = "open"
          /\ lpc' = "newIterator"
          /\ listErr' = listErr
       \/ /\ client' = client
          /\ lpc' = "returned"
          /\ listErr' = PrintableError("Error initializinf execution store ", "init")
    /\ UNCHANGED <<shardPages, failAt, failErr, executionIterator, listCalls, yielded,
                   lastNext, outputFile>>
    /\ UNCHANGED <<failoverVars, deleteVars, checkVars, clientVars, scanVars, cmdVars>>

\* collection.NewPagingIterator(paginationFunc): loads the first page
NewPagingIterator ==
    /\ lpc = "newIterator"
    /\ LET g == getNextPage(NewIterator, listCalls) IN
        /\ executionIterator' = g.iter
        /\ listCalls' = g.calls
    /\ lpc' = "loop"
    /\ UNCHANGED <<shardPages, failAt, failErr, client, yielded, lastNext, outputFile, listErr>>
    /\ UNCHANGED <<failoverVars, deleteVars, checkVars, clientVars, scanVars, cmdVars>>

\* the loop condition executionIterator.HasNext(); false ends the function
\* with a nil error, after the deferred client.Close()
LoopHasNext ==
    /\ lpc = "loop"
    /\ LET h == HasNextStep(executionIterator, listCalls) IN
        /\ executionIterator' = h.iter
        /\ listCalls' = h.calls
        /\ \/ /\ ~h.done
              /\ UNCHANGED <<lpc, client, listErr>>
           \/ /\ h.done /\ h.ret
              /\ lpc' = "body"
              /\ UNCHANGED <<client, listErr>>
           \/ /\ h.done /\ ~h.ret
              /\ lpc' = "returned"
              /\ client' = "closed"
              /\ listErr' = NoError
    /\ UNCHANGED <<shardPages, failAt, failErr, yielded, lastNext, outputFile>>
    /\ UNCHANGED <<failoverVars, deleteVars, checkVars, clientVars, scanVars, cmdVars>>

\* executionIterator.Next(), the error check and the test of the execution
LoopNext ==
    /\ lpc = "body"
    /\ LET n == NextStep(executionIterator, listCalls) IN
        /\ executionIterator' = n.iter
        /\ listCalls' = n.calls
        /\ \/ /\ ~n.done
              /\ UNCHANGED <<lpc, client, listErr, yielded, lastNext>>
           \/ /\ n.done /\ n.err # Nil
              /\ lastNext' = [item |-> n.item, err |-> n.err]
              /\ lpc' = "returned"
              /\ client' = "closed"
              /\ listErr' = PrintableError(FailedToScanShard(shardID), n.err)
              /\ UNCHANGED yielded
           \/ /\ n.done /\ n.err = Nil
              /\ lastNext' = [item |-> n.item, err |-> n.err]
              /\ yielded' = Append(yielded, n.item)
              /\ lpc' = IF IsUnsupportedWorkflow(n.item) THEN "write" ELSE "loop"
              /\ UNCHANGED <<client, listErr>>
    /\ UNCHANGED <<shardPages, failAt, failErr, outputFile>>
    /\ UNCHANGED <<failoverVars, deleteVars, checkVars, clientVars, scanVars, cmdVars>>

\* faulty variant: the line is put in front of the file's content
FileWrite_atFront(f, line) == [f EXCEPT !.written = <<line>> \o @]

\* a successful WriteString: the line is appended at the end of the file
FileWrite(f, line) == [f EXCEPT !.written = Append(@, line)]

\* faulty variant: nothing is forced to disk
FileSync_nothing(f) == f

\* a successful Sync: all that was written is on disk
FileSync(f) == [f EXCEPT !.synced = Len(f.written)]

\* outputFile.WriteString(outStr)
WriteString ==
    /\ lpc = "write"
    /\ \/ /\ outputFile' = FileWrite(outputFile, ResetCommand(lastNext.item))
          /\ lpc' = "sync"
          /\ UNCHANGED <<client, listErr>>
       \/ /\ outputFile' = outputFile
          /\ lpc' = "returned"
          /\ client' = "closed"
          /\ listErr' = PrintableError("Failed to write data to file", "write")
    /\ UNCHANGED <<shardPages, failAt, failErr, executionIterator, listCalls, yielded, lastNext>>
    /\ UNCHANGED <<failoverVars, deleteVars, checkVars, clientVars, scanVars, cmdVars>>

\* outputFile.Sync()
Sync ==
    /\ lpc = "sync"
    /\ \/ /\ outputFile' = FileSync(outputFile)
          /\ lpc' = "loop"
          /\ UNCHANGED <<client, listErr>>
       \/ /\ outputFile' = outputFile
          /\ lpc' = "returned"
          /\ client' = "closed"
          /\ listErr' = PrintableError("Failed to sync data to file", "sync")
    /\ UNCHANGED <<shardPages, failAt, failErr, executionIterator, listCalls, yielded, lastNext>>
    /\ UNCHANGED <<failoverVars, deleteVars, checkVars, clientVars, scanVars, cmdVars>>

\* ------------------------------------------------ AdminDBScanUnsupportedWorkflow
\* getOutputFile, and the start of the loop over the shards
RangeStart ==
    /\ rpc = "start"
    /\ \/ /\ rpc' = "loop"
          /\ shardID' = startShardID
          /\ rangeErr' = rangeErr
       \/ /\ rpc' = "returned"
          /\ rangeErr' = PrintableError("Error getting output file: ", "open")
          /\ shardID' = shardID
    /\ UNCHANGED <<startShardID, endShardID, completed, storeLines>>
    /\ UNCHANGED <<failoverVars, deleteVars, checkVars, rangeVars, clientVars, scanVars>>

\* the loop condition i <= endShardID: call listExecutionsByShardID on shard
\* i, whose store holds one of the listings and fails one list request or
\* none; after the last shard return nil
RangeLoop ==
    /\ rpc = "loop"
    /\ \/ /\ shardID <= endShardID
          /\ rpc' = "scanning"
          /\ lpc' = "start"
          /\ \E l \in RangeListings :
                /\ shardPages' = InShard(shardID, l)
                /\ \E f \in 0..Len(l) :
                    /\ failAt' = f
                    /\ failErr' \in (IF f = 0 THEN {Nil} ELSE TransientErrors)
          /\ client' = Nil
          /\ executionIterator' = NewIterator
          /\ listCalls' = <<>>
          /\ yielded' = <<>>
          /\ lastNext' = NoNext
          /\ listErr' = NoError
          /\ UNCHANGED <<outputFile, rangeErr>>
       \/ /\ shardID > endShardID
          /\ rpc' = "returned"
          /\ rangeErr' = NoError
          /\ UNCHANGED rangeVars
    /\ UNCHANGED <<startShardID, endShardID, shardID, completed, storeLines>>
    /\ UNCHANGED <<failoverVars, deleteVars, checkVars, clientVars, scanVars>>

\* faulty variant: the error of the shard scan is not looked at
ShardFailed_never(err) == FALSE

\* the test err != nil on the result of listExecutionsByShardID
ShardFailed(err) == err # NoError

\* listExecutionsByShardID returned: its error ends the command; otherwise
\* the completion message of the shard is printed and the loop goes on (the
\* locals of the finished call are gone)
RangeAfterShard ==
    /\ rpc = "scanning"
    /\ lpc = "returned"
    /\ \/ /\ ShardFailed(listErr)
          /\ rpc' = "returned"
          /\ rangeErr' = listErr
          /\ UNCHANGED <<shardID, completed, storeLines, rangeVars>>
       \/ /\ ~ShardFailed(listErr)
          /\ completed' = Append(completed, shardID)
          /\ storeLines' = storeLines \o StoredResetCommands(shardPages)
          /\ shardID' = shardID + 1
          /\ rpc' = "loop"
          /\ rangeErr' = rangeErr
          /\ lpc' = "idle"
          /\ shardPages' = <<<<>>>>
          /\ failAt' = 0
          /\ failErr' = Nil
          /\ client' = Nil
          /\ executionIterator' = NewIterator
          /\ listCalls' = <<>>
          /\ yielded' = <<>>
          /\ lastNext' = NoNext
          /\ UNCHANGED <<outputFile, listErr>>
    /\ UNCHANGED <<startShardID, endShardID>>
    /\ UNCHANGED <<failoverVars, deleteVars, checkVars, clientVars, scanVars>>

\* ------------------------------------------------ AdminDBScan: the input file
\* one record of the input file: an execution request, a value that is not
\* JSON ("syntax"), a JSON value that does not fit fetcher.ExecutionRequest
\* ("type"), or a value cut off by the end of the file ("truncated")
InputRecords ==
    {[kind |-> "request", WorkflowID |-> w] : w \in WorkflowIDs}
    \cup {[kind |-> k, WorkflowID |-> Nil] : k \in {"syntax", "type", "truncated"}}

\* the input files: only the last record can be cut off by the end of the file
InputStreams ==
    {s \in UNION {[1..k -> InputRecords] : k \in 0..MaxInput} :
        /\ \A i \in 1..Len(s) : s[i].kind = "truncated" => i = Len(s)
        /\ Cardinality({i \in 1..Len(s) : s[i].kind = "request"}) <= MaxRequests}

\* the decode loop is followed for at most this many Decode calls
MaxDecodeCalls == MaxInput + 2

NoRequest == [WorkflowID |-> Nil]

\* json.NewDecoder(input)
NewDecoder == [pos |-> 1, err |-> Nil]

\* dec.Decode(&exec) of encoding/json: an error met while reading a value (a
\* syntax error, the end of the input) is kept in the decoder and returned by
\* every later call; a value that was read and does not fit the target is
\* consumed and reported once
Decode(d, in) ==
    IF d.err # Nil THEN [dec |-> d, err |-> d.err, value |-> NoRequest]
    ELSE IF d.pos > Len(in)
    THEN [dec |-> [d EXCEPT !.err = "EOF"], err |-> "EOF", value |-> NoRequest]
    ELSE LET r == in[d.pos] IN
        CASE r.kind = "request" ->
                [dec |-> [d EXCEPT !.pos = @ + 1], err |-> Nil,
                 value |-> [WorkflowID |-> r.WorkflowID]]
          [] r.kind = "type" ->
                [dec |-> [d EXCEPT !.pos = @ + 1], err |-> "UnmarshalTypeError",
                 value |-> NoRequest]
          [] r.kind = "syntax" ->
                [dec |-> [d EXCEPT !.err = "SyntaxError"], err |-> "SyntaxError",
                 value |-> NoRequest]
          [] r.kind = "truncated" ->
                [dec |-> [d EXCEPT !.err = "ErrUnexpectedEOF"], err |-> "ErrUnexpectedEOF",
                 value |-> NoRequest]

\* the errors on which the decode loop breaks
EndOfInput == {"EOF", "ErrUnexpectedEOF"}

\* faulty variant: the target of a failed Decode is appended as well
AppendDecoded_always(list, d) == Append(list, d.value)

\* the else branch of the decode loop: only a decoded request is appended
AppendDecoded(list, d) == IF d.err # Nil THEN list ELSE Append(list, d.value)

\* ------------------------------------------------ AdminDBScan
\* the invariant lists scanType.ToInvariants returns in the runs followed
ScanInvariantLists ==
    { <<>>,
      <<"NewHistoryExists">> }

\* the attempt bounds of the retry policy in the runs followed
ScanAttemptBounds == {1, 2}

NoOutcome == [err |-> Nil, execution |-> NoExecution, marshalled |-> FALSE]

\* the check of the invariant list, and getInputFile
ScanStart ==
    /\ spc = "start"
    /\ \/ /\ Len(invariants) < 1
          /\ spc' = "returned"
          /\ scanErr' = PrintableError("no invariants for scan type", Nil)
       \/ /\ Len(invariants) >= 1
          /\ \/ /\ spc' = "decoding"
                /\ scanErr' = scanErr
             \/ /\ spc' = "returned"
                /\ scanErr' = PrintableError("Error getting input file ", "open")
    /\ UNCHANGED <<input, dec, decodeCalls, data, scanIdx, stdout, stderr, storeOutcomes>>
    /\ UNCHANGED <<failoverVars, deleteVars, checkVars, rangeVars, clientVars, cmdVars>>

\* one turn of the decode loop
DecodeStep ==
    /\ spc = "decoding"
    /\ decodeCalls < MaxDecodeCalls
    /\ LET d == Decode(dec, input) IN
        /\ dec' = d.dec
        /\ data' = AppendDecoded(data, d)
        /\ spc' = IF d.err \in EndOfInput THEN "loop" ELSE "decoding"
    /\ decodeCalls' = decodeCalls + 1
    /\ UNCHANGED <<input, scanIdx, stdout, stderr, scanErr, storeOutcomes>>
    /\ UNCHANGED <<failoverVars, deleteVars, checkVars, rangeVars, clientVars, cmdVars>>

\* faulty variant: every turn of the range loop takes the first element
ScanRequest_first(d, i) == d[1]

\* the element e of data the range loop hands to checkExecution
ScanRequest(d, i) == d[i]

\* the head of the range loop: return nil after the last element, or call
\* checkExecution on the next one
ScanLoop ==
    /\ spc = "loop"
    /\ \/ /\ scanIdx >= Len(data)
          /\ spc' = "returned"
          /\ scanErr' = NoError
          /\ UNCHANGED <<scanIdx, checkVars>>
       \/ /\ scanIdx < Len(data)
          /\ scanIdx' = scanIdx + 1
          /\ spc' = "checking"
          /\ cpc' = "start"
          /\ req' = ScanRequest(data, scanIdx + 1).WorkflowID
          /\ execManager' = Nil
          /\ historyV2Mgr' = Nil
          /\ ctxState' = Nil
          /\ storeCalls' = <<>>
          /\ fetchErr' = Nil
          /\ execution' = NoExecution
          /\ ivs' = <<>>
          /\ checkCalls' = <<>>
          /\ result' = EmptyManagerCheckResult
          /\ ret' = Nil
          /\ UNCHANGED <<invariants, maxAttempts, scanErr>>
    /\ UNCHANGED <<input, dec, decodeCalls, data, stdout, stderr, storeOutcomes>>
    /\ UNCHANGED <<failoverVars, deleteVars, rangeVars, clientVars, cmdVars>>

\* faulty variant: the result of the first record is kept for the later ones
ScanOutputEntity_firstResult(e, r) ==
    [Execution |-> e, Result |-> IF stdout = <<>> THEN r ELSE stdout[1].Result]

\* store.ScanOutputEntity{Execution: execution, Result: result}
ScanOutputEntity(e, r) == [Execution |-> e, Result |-> r]

\* the body of the range loop after checkExecution returned: its error ends
\* the command; a record that cannot be marshalled is reported on standard
\* error and passed over; otherwise the record is printed
ScanAfterCheck ==
    /\ spc = "checking"
    /\ cpc = "returned"
    /\ \/ /\ ret.err # Nil
          /\ spc' = "returned"
          /\ scanErr' = PrintableError("Error checking execution: ", ret.err)
          /\ storeOutcomes' = Append(storeOutcomes, [NoOutcome EXCEPT !.err = ret.err])
          /\ UNCHANGED <<stdout, stderr>>
       \/ /\ ret.err = Nil
          /\ spc' = "loop"
          /\ \E marshalled \in BOOLEAN :
                /\ storeOutcomes' = Append(storeOutcomes,
                        [err |-> Nil, execution |-> ret.execution, marshalled |-> marshalled])
                /\ IF marshalled
                   THEN /\ stdout' = Append(stdout, ScanOutputEntity(ret.execution, ret.result))
                        /\ stderr' = stderr
                   ELSE /\ stderr' = Append(stderr, "json: unsupported value")
                        /\ stdout' = stdout
          /\ scanErr' = scanErr
    /\ UNCHANGED <<input, dec, decodeCalls, data, scanIdx>>
    /\ UNCHANGED <<failoverVars, deleteVars, checkVars, rangeVars, clientVars, cmdVars>>

\* ------------------------------------------------ any caller of the paging iterator
NoPeek == [count |-> 0, ret |-> FALSE, iter |-> NewIterator, ncalls |-> 0]

NoCall == [iter |-> NewIterator, ncalls |-> 0]

\* a caller constructs the iterator
ClientNewPagingIterator ==
    /\ ipc = "new"
    /\ LET g == getNextPage(NewIterator, listCalls) IN
        /\ executionIterator' = g.iter
        /\ listCalls' = g.calls
    /\ ipc' = "constructed"
    /\ UNCHANGED <<hasNextRet, callStart, peeks>>
    /\ UNCHANGED <<shardPages, failAt, failErr, lpc, client, yielded, lastNext, outputFile,
                   listErr>>
    /\ UNCHANGED <<failoverVars, deleteVars, checkVars, scanVars, cmdVars>>

CallStartNow == [iter |-> executionIterator, ncalls |-> Len(listCalls)]

\* a caller calls HasNext, at any time between two Next calls
ClientHasNext ==
    /\ ipc \in {"constructed", "afterHasNext", "afterNext", "inHasNext"}
    /\ callStart' = IF ipc = "inHasNext" THEN callStart ELSE CallStartNow
    /\ LET h == HasNextStep(executionIterator, listCalls) IN
        /\ executionIterator' = h.iter
        /\ listCalls' = h.calls
        /\ \/ /\ ~h.done
              /\ ipc' = "inHasNext"
              /\ UNCHANGED <<hasNextRet, peeks>>
           \/ /\ h.done
              /\ ipc' = "afterHasNext"
              /\ hasNextRet' = h.ret
              /\ peeks' = IF peeks.count = 0
                          THEN [count |-> 1, ret |-> h.ret, iter |-> h.iter,
                                ncalls |-> Len(h.calls)]
                          ELSE [peeks EXCEPT !.count = 2]
    /\ UNCHANGED <<shardPages, failAt, failErr, lpc, client, yielded, lastNext, outputFile,
                   listErr>>
    /\ UNCHANGED <<failoverVars, deleteVars, checkVars, scanVars, cmdVars>>

\* a caller calls Next, also on an exhausted iterator
ClientNext ==
    /\ ipc \in {"constructed", "afterHasNext", "afterNext", "inNext"}
    /\ callStart' = IF ipc = "inNext" THEN callStart ELSE CallStartNow
    /\ LET n == NextStep(executionIterator, listCalls) IN
        /\ executionIterator' = n.iter
        /\ listCalls' = n.calls
        /\ \/ /\ ~n.done
              /\ ipc' = "inNext"
              /\ UNCHANGED <<lastNext, yielded, peeks>>
           \/ /\ n.done
              /\ ipc' = "afterNext"
              /\ lastNext' = [item |-> n.item, err |-> n.err]
              /\ yielded' = IF n.err = Nil THEN Append(yielded, n.item) ELSE yielded
              /\ peeks' = NoPeek
    /\ UNCHANGED hasNextRet
    /\ UNCHANGED <<shardPages, failAt, failErr, lpc, client, outputFile, listErr>>
    /\ UNCHANGED <<failoverVars, deleteVars, checkVars, scanVars, cmdVars>>

\* ------------------------------------------------ failover commands
MaxDomains == 2

defaultBatchFailoverSize == 20

defaultBatchFailoverWaitTimeInSeconds == 30

defaultFailoverWorkflowTimeoutInSeconds == 1200

FailoverWorkflowID == "cadence-failover-manager"

DrillWorkflowID == "cadence-failover-manager-drill"

PauseSignal == "pause"

Clusters == {"cluster0", "cluster1"}

\* the list <<prefix1, ..., prefixn>>
DomainList(prefix, n) == [i \in 1..n |-> prefix \o ToString(i)]

FlagDomainLists == {DomainList("domain-", n) : n \in 0..MaxDomains}

\* the numeric flags of the failover commands, as given on the command line
FlagSizes ==
    { [batchFailoverSize |-> 0, batchFailoverWaitTimeInSeconds |-> 0,
       failoverWorkflowTimeout |-> 0, failoverTimeout |-> 0],
      [batchFailoverSize |-> 10, batchFailoverWaitTimeInSeconds |-> 5,
       failoverWorkflowTimeout |-> 600, failoverTimeout |-> 60] }

StartFlags ==
    [targetCluster : Clusters \cup {""}, sourceCluster : Clusters \cup {""},
     sizes : FlagSizes, domains : FlagDomainLists,
     drillWaitTime : {0, 30}, cron : {"", "0 0 * * *"}]

\* the rollback command reads the numeric flags only
RollbackFlags ==
    [targetCluster : {""}, sourceCluster : {""}, sizes : FlagSizes, domains : {<<>>},
     drillWaitTime : {0}, cron : {""}]

NoParams ==
    [targetCluster |-> "", sourceCluster |-> "", batchFailoverSize |-> 0,
     batchFailoverWaitTimeInSeconds |-> 0, failoverWorkflowTimeout |-> 0,
     failoverTimeout |-> 0, domains |-> <<>>, drillWaitTime |-> 0, cron |-> ""]

\* the failover workflow's answer to the state query
WorkflowStates == {"running", "paused", "complete", "aborted"}

QueryResults ==
    [State : WorkflowStates, TargetCluster : Clusters, SourceCluster : Clusters,
     SuccessDomains : {DomainList("moved-", n) : n \in 0..MaxDomains},
     FailedDomains : {DomainList("stuck-", n) : n \in 0..MaxDomains}]

NoQueryResult ==
    [State |-> "", TargetCluster |-> "", SourceCluster |-> "", SuccessDomains |-> <<>>,
     FailedDomains |-> <<>>]

\* the errors query() returns, by the step that failed
QueryErrors ==
    {"Failed to query failover workflow", "QueryResult has no value",
     "Unable to deserialize QueryResult"}

\* the dynamic types of the errors the frontend answers a signal with
SignalErrorTypes ==
    {"*types.EntityNotExistsError", "*types.WorkflowExecutionAlreadyCompletedError",
     "*types.InternalServiceError"}

\* faulty variant: nothing is validated
validateStartParams_accepts(p) == NoError

validateStartParams(p) ==
    IF p.targetCluster = ""
    THEN PrintableError("targetCluster is not provided", Nil)
    ELSE IF p.sourceCluster = ""
    THEN PrintableError("sourceCluster is not provided", Nil)
    ELSE IF p.targetCluster = p.sourceCluster
    THEN PrintableError("targetCluster is same as sourceCluster", Nil)
    ELSE NoError

\* the defaults validateStartParams writes into the params it accepted
DefaultedParams(p) ==
    [p EXCEPT
        !.batchFailoverSize =
            IF @ <= 0 THEN defaultBatchFailoverSize ELSE @,
        !.batchFailoverWaitTimeInSeconds =
            IF @ <= 0 THEN defaultBatchFailoverWaitTimeInSeconds ELSE @,
        !.failoverWorkflowTimeout =
            IF @ <= 0 THEN defaultFailoverWorkflowTimeoutInSeconds ELSE @]

\* faulty variant: every error of the pause signal is let through
PauseSignalTolerated_any(errType) == TRUE

\* the switch on the type of the error executePauseOrResume returned
PauseSignalTolerated(errType) ==
    errType \in {"*types.EntityNotExistsError", "*types.WorkflowExecutionAlreadyCompletedError"}

\* the request failoverStart builds, with its input; a graceful failover timeout of 0
\* stands for the nil pointer of a failover timeout that is not positive
StartRequest(p, resp) ==
    [op |-> "StartWorkflowExecution",
     resp |-> resp,
     workflowID |-> IF p.drillWaitTime > 0 THEN DrillWorkflowID ELSE FailoverWorkflowID,
     cron |-> IF p.drillWaitTime > 0 THEN p.cron ELSE "",
     timeout |-> p.failoverWorkflowTimeout,
     input |-> [TargetCluster |-> p.targetCluster,
                SourceCluster |-> p.sourceCluster,
                BatchFailoverSize |-> p.batchFailoverSize,
                BatchFailoverWaitTimeInSeconds |-> p.batchFailoverWaitTimeInSeconds,
                Domains |-> p.domains,
                DrillWaitTime |-> p.drillWaitTime,
                GracefulFailoverTimeoutInSeconds |->
                    IF p.failoverTimeout > 0 THEN p.failoverTimeout ELSE 0]]

FailoverReturn(err) ==
    /\ fpc' = "returned"
    /\ foErr' = err

\* AdminFailoverStart: the two required flags, then failoverStart with the flags' values
AdminFailoverStart ==
    /\ fpc = "entry"
    /\ command = "start"
    /\ IF flags.targetCluster = "" \/ flags.sourceCluster = ""
       THEN /\ FailoverReturn(PrintableError("Flag not found: ", "option is required"))
            /\ UNCHANGED params
       ELSE /\ params' = [targetCluster |-> flags.targetCluster,
                          sourceCluster |-> flags.sourceCluster,
                          batchFailoverSize |-> flags.sizes.batchFailoverSize,
                          batchFailoverWaitTimeInSeconds |->
                              flags.sizes.batchFailoverWaitTimeInSeconds,
                          failoverWorkflowTimeout |-> flags.sizes.failoverWorkflowTimeout,
                          failoverTimeout |-> flags.sizes.failoverTimeout,
                          domains |-> flags.domains,
                          drillWaitTime |-> flags.drillWaitTime,
                          cron |-> flags.cron]
            /\ fpc' = "failoverStart"
            /\ UNCHANGED foErr
    /\ UNCHANGED <<command, flags, requests, queryResult, queryLog, foOut>>
    /\ UNCHANGED <<checkVars, rangeVars, clientVars, scanVars, cmdVars, deleteVars>>

\* the steps of failoverStart that may fail before the drill workflow is looked at
StartSetUpOutcomes == {"ok", "newContext", "getOperator", "getWorkflowMemo"}

StartSetUpError(outcome) ==
    CASE outcome = "newContext" -> PrintableError("Error creating new context: ", "context")
      [] outcome = "getOperator" -> PrintableError("Failed to get operator", "user")
      [] outcome = "getWorkflowMemo" -> PrintableError("Failed to serialize memo", "memo")

\* failoverStart, from the validation to the drill branch
FailoverStartBegin ==
    /\ fpc = "failoverStart"
    /\ IF validateStartParams(params) # NoError
       THEN /\ FailoverReturn(PrintableError("Failed validation of start params",
                                             validateStartParams(params).msg))
            /\ UNCHANGED params
       ELSE /\ params' = DefaultedParams(params)
            /\ \E outcome \in StartSetUpOutcomes :
                  IF outcome # "ok"
                  THEN FailoverReturn(StartSetUpError(outcome))
                  ELSE IF params.drillWaitTime > 0
                  THEN fpc' = "starting" /\ UNCHANGED foErr
                  ELSE IF params.cron # ""
                  THEN FailoverReturn(PrintableError(
                          "The drill wait time is required when cron is specified.", Nil))
                  ELSE fpc' = "pausing" /\ UNCHANGED foErr
    /\ UNCHANGED <<command, flags, requests, queryResult, queryLog, foOut>>
    /\ UNCHANGED <<checkVars, rangeVars, clientVars, scanVars, cmdVars, deleteVars>>

\* what executePauseOrResume may meet: no context, or the frontend's answer to the signal
PauseOutcomes == {"newContext", "ok"} \cup SignalErrorTypes

\* the type of the error executePauseOrResume returns
PauseErrorType(outcome) ==
    CASE outcome = "newContext" -> "PrintableError"
      [] outcome = "ok" -> Nil
      [] OTHER -> outcome

\* failoverStart without a drill wait time: the pause signal to the drill workflow
ExecutePauseOrResume ==
    /\ fpc = "pausing"
    /\ \E outcome \in PauseOutcomes :
          /\ requests' = IF outcome = "newContext"
                         THEN requests
                         ELSE Append(requests, [op |-> "SignalWorkflowExecution",
                                                workflowID |-> DrillWorkflowID,
                                                signal |-> PauseSignal,
                                                resp |-> outcome])
          /\ IF outcome = "ok" \/ PauseSignalTolerated(PauseErrorType(outcome))
             THEN /\ fpc' = "starting"
                  /\ foOut' = Append(foOut, "The failover drill workflow is paused.")
                  /\ UNCHANGED foErr
             ELSE /\ FailoverReturn(PrintableError(
                         "Failed to send pase signal to drill workflow",
                         PauseErrorType(outcome)))
                  /\ UNCHANGED foOut
    /\ UNCHANGED <<command, flags, params, queryResult, queryLog>>
    /\ UNCHANGED <<checkVars, rangeVars, clientVars, scanVars, cmdVars, deleteVars>>

StartOutcomes == {"json.Marshal", "ok", "*types.InternalServiceError"}

\* failoverStart: the input is serialized and the workflow is started
StartWorkflowExecution ==
    /\ fpc = "starting"
    /\ \E outcome \in StartOutcomes :
          IF outcome = "json.Marshal"
          THEN /\ FailoverReturn(PrintableError("Failed to serialize Failover Params",
                                                outcome))
               /\ UNCHANGED <<requests, foOut>>
          ELSE /\ requests' = Append(requests, StartRequest(params, outcome))
               /\ IF outcome = "ok"
                  THEN /\ FailoverReturn(NoError)
                       /\ foOut' = foOut \o <<"Failover workflow started",
                                              "wid: " \o FailoverWorkflowID, "rid: "
                                              \o "run-1">>
                  ELSE /\ FailoverReturn(PrintableError("Failed to start failover workflow",
                                                        outcome))
                       /\ UNCHANGED foOut
    /\ UNCHANGED <<command, flags, params, queryResult, queryLog>>
    /\ UNCHANGED <<checkVars, rangeVars, clientVars, scanVars, cmdVars, deleteVars>>

\* faulty variant: a paused workflow does not count as running
isWorkflowRunning_notPaused(q) == q.State = "running"

isWorkflowRunning(q) == q.State = "running" \/ q.State = "paused"

\* faulty variant: the clusters are taken over as they are
RollbackParams_sameDirection(q, f) ==
    [targetCluster |-> q.TargetCluster,
     sourceCluster |-> q.SourceCluster,
     batchFailoverSize |-> f.sizes.batchFailoverSize,
     batchFailoverWaitTimeInSeconds |-> f.sizes.batchFailoverWaitTimeInSeconds,
     failoverWorkflowTimeout |-> f.sizes.failoverWorkflowTimeout,
     failoverTimeout |-> f.sizes.failoverTimeout,
     domains |-> q.SuccessDomains \o q.FailedDomains,
     drillWaitTime |-> 0,
     cron |-> ""]

\* the start params of a rollback: the queried clusters swapped, the domains the
\* failover moved and those it failed on
RollbackParams(q, f) ==
    [targetCluster |-> q.SourceCluster,
     sourceCluster |-> q.TargetCluster,
     batchFailoverSize |-> f.sizes.batchFailoverSize,
     batchFailoverWaitTimeInSeconds |-> f.sizes.batchFailoverWaitTimeInSeconds,
     failoverWorkflowTimeout |-> f.sizes.failoverWorkflowTimeout,
     failoverTimeout |-> f.sizes.failoverTimeout,
     domains |-> q.SuccessDomains \o q.FailedDomains,
     drillWaitTime |-> 0,
     cron |-> ""]

QueryRequest(resp) ==
    [op |-> "QueryWorkflow", workflowID |-> FailoverWorkflowID, resp |-> resp]

\* AdminFailoverRollback: the context
AdminFailoverRollback ==
    /\ fpc = "entry"
    /\ command = "rollback"
    /\ \E ok \in BOOLEAN :
          IF ok
          THEN fpc' = "query1" /\ UNCHANGED foErr
          ELSE FailoverReturn(PrintableError("Error creating new context: ", "context"))
    /\ UNCHANGED <<command, flags, params, requests, queryResult, queryLog, foOut>>
    /\ UNCHANGED <<checkVars, rangeVars, clientVars, scanVars, cmdVars, deleteVars>>

\* AdminFailoverRollback: the first query and the test of the workflow's state
RollbackQuery ==
    /\ fpc = "query1"
    /\ \/ \E e \in QueryErrors :
             /\ requests' = Append(requests, QueryRequest(e))
             /\ FailoverReturn(PrintableError(e, "query"))
             /\ UNCHANGED <<queryResult, queryLog>>
       \/ \E q \in QueryResults :
             /\ requests' = Append(requests, QueryRequest("ok"))
             /\ queryResult' = q
             /\ queryLog' = Append(queryLog, q)
             /\ fpc' = IF isWorkflowRunning(q) THEN "terminating" ELSE "query2"
             /\ UNCHANGED foErr
    /\ UNCHANGED <<command, flags, params, foOut>>
    /\ UNCHANGED <<checkVars, rangeVars, clientVars, scanVars, cmdVars, deleteVars>>

\* AdminFailoverRollback: the running failover workflow is terminated
RollbackTerminate ==
    /\ fpc = "terminating"
    /\ \E resp \in {"ok", "*types.InternalServiceError"} :
          /\ requests' = Append(requests, [op |-> "TerminateWorkflowExecution",
                                           workflowID |-> FailoverWorkflowID,
                                           reason |-> "Rollback",
                                           resp |-> resp])
          /\ IF resp = "ok"
             THEN fpc' = "query2" /\ UNCHANGED foErr
             ELSE FailoverReturn(PrintableError("Failed to terminate failover workflow",
                                                resp))
    /\ UNCHANGED <<command, flags, params, queryResult, queryLog, foOut>>
    /\ UNCHANGED <<checkVars, rangeVars, clientVars, scanVars, cmdVars, deleteVars>>

\* AdminFailoverRollback: the second query, the start params, and on to failoverStart
RollbackQueryAgain ==
    /\ fpc = "query2"
    /\ \/ \E e \in QueryErrors :
             /\ requests' = Append(requests, QueryRequest(e))
             /\ FailoverReturn(PrintableError(e, "query"))
             /\ UNCHANGED <<queryResult, queryLog, params>>
       \/ \E q \in QueryResults :
             /\ requests' = Append(requests, QueryRequest("ok"))
             /\ queryResult' = q
             /\ queryLog' = Append(queryLog, q)
             /\ params' = RollbackParams(q, flags)
             /\ fpc' = "failoverStart"
             /\ UNCHANGED foErr
    /\ UNCHANGED <<command, flags, foOut>>
    /\ UNCHANGED <<checkVars, rangeVars, clientVars, scanVars, cmdVars, deleteVars>>

\* ------------------------------------------------ AdminDeleteWorkflow
MaxBranches == 2

\* a branch token the thrift decoder reads, and one it does not
BranchTokenKinds == {"token", "garbled"}

NoMutableState == [BranchToken |-> Nil, VersionHistories |-> <<Nil>>]

\* the mutable states the database may hold: without version histories (written
\* <<Nil>>) the branch token of the execution info counts, with them their tokens do
MutableStates ==
    [BranchToken : BranchTokenKinds, VersionHistories : {<<Nil>>}]
        \cup [BranchToken : {"token"},
              VersionHistories : UNION {[1..n -> BranchTokenKinds] : n \in 0..MaxBranches}]

BranchTokensOf(m) ==
    IF m.VersionHistories # <<Nil>> THEN m.VersionHistories ELSE <<m.BranchToken>>

\* faulty variant: every token is taken to decode
Decodes_always(token) == TRUE

\* thriftrwEncoder.Decode on a branch token
Decodes(token) == token = "token"

Problem(msg, cause) == [msg |-> msg, cause |-> cause]

StoreAnswers == {"ok", "Timeout"}

\* the return of AdminDeleteWorkflow once the history manager is open: the deferred
\* Close of the history manager runs, the execution store is left as it is
DeleteReturn(err, ops) ==
    /\ dpc' = "returned"
    /\ delErr' = err
    /\ storeOps' = ops \o <<[op |-> "histV2.Close", resp |-> "ok"]>>

\* AdminDeleteWorkflow: the flags, and with the remote flag the admin client's call
DeleteStart ==
    /\ dpc = "entry"
    /\ IF remote
       THEN \E resp \in StoreAnswers :
               /\ storeOps' = Append(storeOps, [op |-> "adminClient.DeleteWorkflow",
                                                SkipErrors |-> skipError,
                                                resp |-> resp])
               /\ dpc' = "returned"
               /\ delErr' = IF resp = "ok"
                            THEN NoError
                            ELSE Problem("Operation AdminMaintainCorruptWorkflow failed.",
                                         resp)
       ELSE /\ dpc' = "describe"
            /\ UNCHANGED <<storeOps, delErr>>
    /\ UNCHANGED <<ms, remote, skipError, branchTokens, branchIdx, delOut>>
    /\ UNCHANGED <<checkVars, rangeVars, clientVars, scanVars, cmdVars, failoverVars>>

DescribeOutcomes == {"ok", "describeMutableState", "json.Unmarshal", "strconv.Atoi(shardID)"}

\* AdminDeleteWorkflow: the mutable state is read, the stores are opened and the
\* branch tokens are collected
DeleteDescribe ==
    /\ dpc = "describe"
    /\ \E outcome \in DescribeOutcomes :
          IF outcome # "ok"
          THEN /\ dpc' = "returned"
               /\ delErr' = Problem(outcome \o " err", outcome)
               /\ UNCHANGED <<storeOps, branchTokens, branchIdx>>
          ELSE /\ storeOps' = storeOps \o <<[op |-> "initializeHistoryManager", resp |-> "ok"],
                                            [op |-> "initializeExecutionStore", resp |-> "ok"]>>
               /\ branchTokens' = BranchTokensOf(ms)
               /\ branchIdx' = 1
               /\ dpc' = "branches"
               /\ UNCHANGED delErr
    /\ UNCHANGED <<ms, remote, skipError, delOut>>
    /\ UNCHANGED <<checkVars, rangeVars, clientVars, scanVars, cmdVars, failoverVars>>

\* AdminDeleteWorkflow: one turn of the loop over the branch tokens
DeleteHistoryBranch ==
    /\ dpc = "branches"
    /\ branchIdx <= Len(branchTokens)
    /\ IF ~Decodes(branchTokens[branchIdx])
       THEN /\ DeleteReturn(Problem("thriftrwEncoder.Decode err", "decode"), storeOps)
            /\ UNCHANGED <<branchIdx, delOut>>
       ELSE \E resp \in StoreAnswers :
               LET ops == Append(storeOps, [op |-> "DeleteHistoryBranch",
                                            branch |-> branchIdx,
                                            resp |-> resp])
               IN  IF resp # "ok" /\ ~skipError
                   THEN /\ DeleteReturn(Problem("DeleteHistoryBranch err", resp), ops)
                        /\ delOut' = Append(delOut, "deleting history events for ...")
                        /\ UNCHANGED branchIdx
                   ELSE /\ storeOps' = ops
                        /\ delOut' = delOut \o <<"deleting history events for ...">>
                                        \o (IF resp # "ok"
                                            THEN <<"failed to delete history, ">>
                                            ELSE <<>>)
                        /\ branchIdx' = branchIdx + 1
                        /\ UNCHANGED <<dpc, delErr>>
    /\ UNCHANGED <<ms, remote, skipError, branchTokens>>
    /\ UNCHANGED <<checkVars, rangeVars, clientVars, scanVars, cmdVars, failoverVars>>

\* AdminDeleteWorkflow: after the loop, the mutable state row
DeleteWorkflowExecution ==
    /\ dpc = "branches"
    /\ branchIdx > Len(branchTokens)
    /\ \E resp \in StoreAnswers :
          LET ops == Append(storeOps, [op |-> "DeleteWorkflowExecution", resp |-> resp])
          IN  IF resp # "ok" /\ ~skipError
              THEN /\ DeleteReturn(Problem("delete mutableState row failed", resp), ops)
                   /\ UNCHANGED delOut
              ELSE /\ storeOps' = ops
                   /\ delOut' = delOut
                        \o (IF resp # "ok" THEN <<"delete mutableState row failed, ">>
                            ELSE <<>>)
                        \o <<"delete mutableState row successfully">>
                   /\ dpc' = "current"
                   /\ UNCHANGED delErr
    /\ UNCHANGED <<ms, remote, skipError, branchTokens, branchIdx>>
    /\ UNCHANGED <<checkVars, rangeVars, clientVars, scanVars, cmdVars, failoverVars>>

\* AdminDeleteWorkflow: the current-execution row, and the return
DeleteCurrentWorkflowExecution ==
    /\ dpc = "current"
    /\ \E resp \in StoreAnswers :
          LET ops == Append(storeOps, [op |-> "DeleteCurrentWorkflowExecution",
                                       resp |-> resp])
          IN  IF resp # "ok" /\ ~skipError
              THEN /\ DeleteReturn(Problem("delete current row failed", resp), ops)
                   /\ UNCHANGED delOut
              ELSE /\ DeleteReturn(NoError, ops)
                   /\ delOut' = delOut
                        \o (IF resp # "ok" THEN <<"delete current row failed, ">> ELSE <<>>)
                        \o <<"delete current row successfully">>
    /\ UNCHANGED <<ms, remote, skipError, branchTokens, branchIdx>>
    /\ UNCHANGED <<checkVars, rangeVars, clientVars, scanVars, cmdVars, failoverVars>>

\* ------------------------------------------------ specifications
CheckIdle ==
    /\ cpc = "idle"
    /\ req = "wf-A"
    /\ invariants = <<>>
    /\ maxAttempts = 1
    /\ execManager = Nil
    /\ historyV2Mgr = Nil
    /\ ctxState = Nil
    /\ storeCalls = <<>>
    /\ fetchErr = Nil
    /\ execution = NoExecution
    /\ ivs = <<>>
    /\ checkCalls = <<>>
    /\ result = EmptyManagerCheckResult
    /\ ret = Nil

\* the store of the shard, and whether and where a list request fails
StoreOf(kinds) ==
    /\ shardPages \in ShardListings(kinds)
    /\ failAt \in 0..MaxPages
    /\ failAt <= Len(shardPages)
    /\ failErr \in (IF failAt = 0 THEN {Nil} ELSE TransientErrors)

IteratorNotBuilt ==
    /\ executionIterator = NewIterator
    /\ listCalls = <<>>
    /\ yielded = <<>>
    /\ lastNext = NoNext

RangeIdle ==
    /\ shardPages = <<<<>>>>
    /\ failAt = 0
    /\ failErr = Nil
    /\ IteratorNotBuilt
    /\ lpc = "idle"
    /\ client = Nil
    /\ outputFile = [written |-> <<>>, synced |-> 0]
    /\ listErr = NoError

ClientIdle ==
    /\ ipc = "idle"
    /\ hasNextRet = FALSE
    /\ callStart = NoCall
    /\ peeks = NoPeek

ScanIdle ==
    /\ input = <<>>
    /\ dec = NewDecoder
    /\ decodeCalls = 0
    /\ data = <<>>
    /\ spc = "idle"
    /\ scanIdx = 0
    /\ stdout = <<>>
    /\ stderr = <<>>
    /\ scanErr = NoError
    /\ storeOutcomes = <<>>

CmdIdle ==
    /\ rpc = "idle"
    /\ startShardID = 0
    /\ endShardID = 0
    /\ shardID = 0
    /\ completed = <<>>
    /\ rangeErr = NoError
    /\ storeLines = <<>>

FailoverIdle ==
    /\ fpc = "idle"
    /\ command = "start"
    /\ flags = [targetCluster |-> "", sourceCluster |-> "",
                sizes |-> [batchFailoverSize |-> 0, batchFailoverWaitTimeInSeconds |-> 0,
                           failoverWorkflowTimeout |-> 0, failoverTimeout |-> 0],
                domains |-> <<>>, drillWaitTime |-> 0, cron |-> ""]
    /\ params = NoParams
    /\ requests = <<>>
    /\ queryResult = NoQueryResult
    /\ queryLog = <<>>
    /\ foErr = NoError
    /\ foOut = <<>>

DeleteIdle ==
    /\ dpc = "idle"
    /\ ms = NoMutableState
    /\ remote = FALSE
    /\ skipError = FALSE
    /\ branchTokens = <<>>
    /\ branchIdx = 0
    /\ storeOps = <<>>
    /\ delErr = NoError
    /\ delOut = <<>>

InitCheck ==
    /\ cpc = "start"
    /\ req \in WorkflowIDs
    /\ invariants \in NonEmptySeqsUpTo(InvariantFactories, MaxInvariants)
    /\ maxAttempts \in 1..MaxPolicyAttempts
    /\ execManager = Nil
    /\ historyV2Mgr = Nil
    /\ ctxState = Nil
    /\ storeCalls = <<>>
    /\ fetchErr = Nil
    /\ execution = NoExecution
    /\ ivs = <<>>
    /\ checkCalls = <<>>
    /\ result = EmptyManagerCheckResult
    /\ ret = Nil
    /\ RangeIdle
    /\ ClientIdle
    /\ ScanIdle
    /\ FailoverIdle
    /\ DeleteIdle
    /\ CmdIdle

NextCheck ==
    \/ InitializeExecutionStore
    \/ InitializeHistoryManager
    \/ NewContext
    \/ FetcherAttempt
    \/ AfterFetch
    \/ RunChecksStep
    \/ CheckExecutionReturn

SpecCheck == InitCheck /\ [][NextCheck]_vars

\* listExecutionsByShardID on one shard
InitList ==
    /\ StoreOf(ExecutionKinds)
    /\ IteratorNotBuilt
    /\ lpc = "start"
    /\ client = Nil
    /\ outputFile = [written |-> <<>>, synced |-> 0]
    /\ listErr = NoError
    /\ ClientIdle
    /\ CheckIdle
    /\ ScanIdle
    /\ FailoverIdle
    /\ DeleteIdle
    /\ CmdIdle

NextList ==
    \/ OpenShardStore
    \/ NewPagingIterator
    \/ LoopHasNext
    \/ LoopNext
    \/ WriteString
    \/ Sync

SpecList == InitList /\ [][NextList]_vars

\* the paging iterator under any sequence of HasNext and Next calls; the
\* iterator does not look into its items, so one kind of item is enough
InitIter ==
    /\ StoreOf({[ExecutionInfo |-> TRUE, CloseStatus |-> 0, VersionHistories |-> FALSE]})
    /\ IteratorNotBuilt
    /\ lpc = "idle"
    /\ client = Nil
    /\ outputFile = [written |-> <<>>, synced |-> 0]
    /\ listErr = NoError
    /\ ipc = "new"
    /\ hasNextRet = FALSE
    /\ callStart = NoCall
    /\ peeks = NoPeek
    /\ CheckIdle
    /\ ScanIdle
    /\ FailoverIdle
    /\ DeleteIdle
    /\ CmdIdle

NextIter ==
    \/ ClientNewPagingIterator
    \/ ClientHasNext
    \/ ClientNext

SpecIter == InitIter /\ [][NextIter]_vars

\* AdminDBScanUnsupportedWorkflow over the shards startShardID..endShardID
InitRange ==
    /\ rpc = "start"
    /\ startShardID \in ShardIDs
    /\ endShardID \in ShardIDs
    /\ shardID = 0
    /\ completed = <<>>
    /\ rangeErr = NoError
    /\ storeLines = <<>>
    /\ RangeIdle
    /\ CheckIdle
    /\ ClientIdle
    /\ ScanIdle
    /\ FailoverIdle
    /\ DeleteIdle

NextRange ==
    \/ RangeStart
    \/ RangeLoop
    \/ RangeAfterShard
    \/ OpenShardStore
    \/ NewPagingIterator
    \/ LoopHasNext
    \/ LoopNext
    \/ WriteString
    \/ Sync

SpecRange == InitRange /\ [][NextRange]_vars

\* AdminDBScan on one input file
InitScan ==
    /\ input \in InputStreams
    /\ dec = NewDecoder
    /\ decodeCalls = 0
    /\ data = <<>>
    /\ spc = "start"
    /\ scanIdx = 0
    /\ stdout = <<>>
    /\ stderr = <<>>
    /\ scanErr = NoError
    /\ storeOutcomes = <<>>
    /\ cpc = "idle"
    /\ req = "wf-A"
    /\ invariants \in ScanInvariantLists
    /\ maxAttempts \in ScanAttemptBounds
    /\ execManager = Nil
    /\ historyV2Mgr = Nil
    /\ ctxState = Nil
    /\ storeCalls = <<>>
    /\ fetchErr = Nil
    /\ execution = NoExecution
    /\ ivs = <<>>
    /\ checkCalls = <<>>
    /\ result = EmptyManagerCheckResult
    /\ ret = Nil
    /\ RangeIdle
    /\ ClientIdle
    /\ CmdIdle
    /\ FailoverIdle
    /\ DeleteIdle

NextScan ==
    \/ ScanStart
    \/ DecodeStep
    \/ ScanLoop
    \/ ScanAfterCheck
    \/ InitializeExecutionStore
    \/ InitializeHistoryManager
    \/ NewContext
    \/ FetcherAttempt
    \/ AfterFetch
    \/ RunChecksStep
    \/ CheckExecutionReturn

SpecScan == InitScan /\ [][NextScan]_vars

\* the admin CLI runs one of the two scan commands
InitAdmin == InitScan \/ InitRange

NextAdmin == NextScan \/ NextRange

SpecAdmin == InitAdmin /\ [][NextAdmin]_vars

\* a failover command: start, or rollback
InitFailover ==
    /\ fpc = "entry"
    /\ command \in {"start", "rollback"}
    /\ flags \in (IF command = "start" THEN StartFlags ELSE RollbackFlags)
    /\ params = NoParams
    /\ requests = <<>>
    /\ queryResult = NoQueryResult
    /\ queryLog = <<>>
    /\ foErr = NoError
    /\ foOut = <<>>
    /\ CheckIdle
    /\ RangeIdle
    /\ ClientIdle
    /\ ScanIdle
    /\ CmdIdle
    /\ DeleteIdle

NextFailover ==
    \/ AdminFailoverStart
    \/ FailoverStartBegin
    \/ ExecutePauseOrResume
    \/ StartWorkflowExecution
    \/ AdminFailoverRollback
    \/ RollbackQuery
    \/ RollbackTerminate
    \/ RollbackQueryAgain

SpecFailover == InitFailover /\ [][NextFailover]_vars

\* AdminDeleteWorkflow on a workflow whose mutable state the database holds
InitDelete ==
    /\ dpc = "entry"
    /\ remote \in BOOLEAN
    /\ skipError \in BOOLEAN
    /\ ms \in MutableStates
    /\ branchTokens = <<>>
    /\ branchIdx = 0
    /\ storeOps = <<>>
    /\ delErr = NoError
    /\ delOut = <<>>
    /\ CheckIdle
    /\ RangeIdle
    /\ ClientIdle
    /\ ScanIdle
    /\ CmdIdle
    /\ FailoverIdle

NextDelete ==
    \/ DeleteStart
    \/ DeleteDescribe
    \/ DeleteHistoryBranch
    \/ DeleteWorkflowExecution
    \/ DeleteCurrentWorkflowExecution

SpecDelete == InitDelete /\ [][NextDelete]_vars

\* ------------------------------------------------ properties of checkExecution
\* checkExecution returned the execution and a manager result (no error)
CheckedOK == cpc = "returned" /\ ret.err = Nil

\* the aggregation law, stated on a list of individual results
AggregateLaw(results) ==
    IF \E i \in 1..Len(results) : results[i].CheckResultType = CheckResultTypeFailed
    THEN CheckResultTypeFailed
    ELSE IF \E i \in 1..Len(results) : results[i].CheckResultType = CheckResultTypeCorrupted
    THEN CheckResultTypeCorrupted
    ELSE CheckResultTypeHealthy

\* C1: RunChecks invokes every invariant of the caller's list exactly once, in
\* the caller's order, on the fetched snapshot; individual result i is the
\* result of invariant i, and the returned list has exactly as many results
\* as there are invariants, whatever the earlier results were.
C1_EveryInvariantRunsInOrder ==
    /\ cpc \in {"checking", "returned"} =>
        /\ Len(checkCalls) <= Len(invariants)
        /\ Len(result.CheckResults) = Len(checkCalls)
        /\ \A i \in 1..Len(checkCalls) :
            /\ checkCalls[i] = FactoryInvariant(invariants[i])
            /\ result.CheckResults[i].InvariantName = FactoryInvariant(invariants[i])
            /\ result.CheckResults[i].CheckResultType =
                    execution.verdict[FactoryInvariant(invariants[i])]
    /\ CheckedOK =>
        /\ Len(checkCalls) = Len(invariants)
        /\ Len(ret.result.CheckResults) = Len(invariants)
        /\ ret.result.CheckResults = result.CheckResults
        /\ ret.execution = execution

C1_Witness ==
    /\ CheckedOK
    /\ Len(invariants) = 3
    /\ ret.result.CheckResults[1].CheckResultType = CheckResultTypeFailed
    /\ ret.result.CheckResults[2].CheckResultType = CheckResultTypeCorrupted
    /\ ret.result.CheckResults[3].CheckResultType = CheckResultTypeHealthy

\* C2: the overall status is failed if any individual result is failed, else
\* corrupted if any is corrupted, else healthy; so it is healthy only when
\* every individual result is healthy.
C2_AggregationLaw ==
    /\ cpc = "checking" => result.CheckResultType = AggregateLaw(result.CheckResults)
    /\ CheckedOK =>
        /\ ret.result.CheckResultType = AggregateLaw(ret.result.CheckResults)
        /\ ret.result.CheckResultType = CheckResultTypeHealthy =>
            \A i \in 1..Len(invariants) :
                execution.verdict[FactoryInvariant(invariants[i])] = CheckResultTypeHealthy

C2_Witness ==
    /\ CheckedOK
    /\ Len(ret.result.CheckResults) = 3
    /\ ret.result.CheckResults[1].CheckResultType = CheckResultTypeCorrupted
    /\ ret.result.CheckResults[2].CheckResultType = CheckResultTypeHealthy
    /\ ret.result.CheckResults[3].CheckResultType = CheckResultTypeFailed
    /\ ret.result.CheckResultType = CheckResultTypeFailed

\* C3: running the manager on any permutation of the invariant list, on the
\* same snapshot, gives the same overall status, and the individual results
\* are the same permutation of the original individual results.
C3_OrderIndependent ==
    CheckedOK =>
        \A p \in Permutations(1..Len(ivs)) :
            LET permuted == RunChecks(Permute(ivs, p), execution) IN
            /\ permuted.CheckResultType = ret.result.CheckResultType
            /\ permuted.CheckResults = Permute(ret.result.CheckResults, p)

C3_Witness ==
    /\ CheckedOK
    /\ Len(ivs) = 3
    /\ Cardinality({ivs[i] : i \in 1..3}) = 3
    /\ Cardinality({ret.result.CheckResults[i].CheckResultType : i \in 1..3}) = 3
    /\ ret.result.CheckResults[1].CheckResultType = CheckResultTypeHealthy

\* C9: a store operation that fails K times with a retryable error and then
\* succeeds: with K < max attempts the wrapped call succeeds after K retries
\* (K+1 underlying calls); otherwise the wrapped call makes max attempts
\* underlying calls and fails with the last underlying error.
C9_BoundedRetry ==
    /\ cpc = "fetching" =>
        /\ Len(storeCalls) < maxAttempts
        /\ \A i \in 1..Len(storeCalls) : storeCalls[i] \in TransientErrors
    /\ cpc = "fetched" =>
        LET n == Len(storeCalls) IN
        /\ n \in 1..maxAttempts
        /\ \A i \in 1..(n - 1) : storeCalls[i] \in TransientErrors
        /\ storeCalls[n] = "ok" => fetchErr = Nil /\ execution.workflowID = req
        /\ storeCalls[n] \in TransientErrors =>
            n = maxAttempts /\ fetchErr = storeCalls[n] /\ execution = NoExecution

\* K = 2 < 3: success on the third underlying call
C9_Witness ==
    /\ cpc = "fetched"
    /\ maxAttempts = 3
    /\ storeCalls = <<"Timeout", "ServiceBusy", "ok">>
    /\ fetchErr = Nil

\* K >= 3: three underlying calls, the error of the last one is returned
C9_WitnessExhausted ==
    /\ cpc = "fetched"
    /\ maxAttempts = 3
    /\ storeCalls = <<"Timeout", "Timeout", "ServiceBusy">>
    /\ fetchErr = "ServiceBusy"

\* C10: a non-retryable error of the underlying store ends the wrapped call:
\* it is the last underlying call and its error is what the wrapped call
\* returns; when the first answer is non-retryable exactly one call is made.
C10_NonRetryableNotRetried ==
    /\ \A i \in 1..Len(storeCalls) :
        storeCalls[i] \in NonRetryableErrors =>
            /\ i = Len(storeCalls)
            /\ cpc # "fetching"
            /\ fetchErr = storeCalls[i]
    /\ (storeCalls # <<>> /\ storeCalls[1] \in NonRetryableErrors) => Len(storeCalls) = 1

C10_Witness ==
    /\ cpc = "fetched"
    /\ maxAttempts = 3
    /\ storeCalls = <<"EntityNotExists">>
    /\ fetchErr = "EntityNotExists"

\* ------------------------------------------------ properties of the paging iterator
\* the items of the shard, in the order the store lists them
AllItems == Flatten(shardPages)

\* the items of the pages the store handed out before its k-th answer
FetchedBefore(k) == Flatten([j \in 1..(k - 1) |-> listCalls[j].resp.Executions])

\* C4: when no list request fails, the loop "for HasNext() { Next() }" yields
\* exactly the items of the shard, each once and in the store's order, however
\* they are split into pages (empty pages with a token included); HasNext
\* answers true as long as items are left and false once all are consumed.
C4_LoopYieldsAllItems ==
    failAt = 0 =>
        /\ Len(yielded) <= Len(AllItems)
        /\ yielded = SubSeq(AllItems, 1, Len(yielded))
        /\ lpc = "body" => Len(yielded) < Len(AllItems)
        /\ (lpc = "returned" /\ listErr = NoError) => yielded = AllItems

C4_Witness ==
    /\ failAt = 0
    /\ lpc = "returned"
    /\ listErr = NoError
    /\ Len(shardPages) = 3
    /\ shardPages[2] = <<>>
    /\ Len(shardPages[1]) = 2
    /\ Len(yielded) = 3

\* C5: Next on an exhausted iterator returns the "no more items" error and no
\* item, makes no list request and leaves the iterator as it was, exhausted;
\* HasNext keeps answering false without a list request.
C5_NextAfterExhaustion ==
    /\ ipc \in {"inNext", "inHasNext"} => ~Exhausted(callStart.iter)
    /\ (ipc = "afterNext" /\ Exhausted(callStart.iter)) =>
        /\ lastNext = [item |-> NoItem, err |-> ErrNoMoreItems]
        /\ Len(listCalls) = callStart.ncalls
        /\ executionIterator = callStart.iter
    /\ (ipc = "afterHasNext" /\ Exhausted(callStart.iter)) =>
        /\ hasNextRet = FALSE
        /\ Len(listCalls) = callStart.ncalls
        /\ executionIterator = callStart.iter

C5_Witness ==
    /\ ipc = "afterNext"
    /\ Exhausted(callStart.iter)
    /\ lastNext.err = ErrNoMoreItems
    /\ Len(yielded) = 3
    /\ Len(listCalls) = 2

\* C6: a HasNext call that follows another HasNext call with no Next call in
\* between gives the same answer as the first, makes no list request and
\* leaves the iterator's fields as the first call left them, so the items
\* Next returns afterwards are the same.
C6_HasNextIdempotent ==
    /\ ipc = "inHasNext" => peeks.count = 0
    /\ (ipc = "afterHasNext" /\ peeks.count = 2) =>
        /\ hasNextRet = peeks.ret
        /\ Len(listCalls) = peeks.ncalls
        /\ executionIterator = peeks.iter

C6_Witness ==
    /\ ipc = "afterHasNext"
    /\ peeks.count = 2
    /\ hasNextRet = TRUE
    /\ Len(listCalls) = 2
    /\ Len(yielded) = 1
    /\ executionIterator.nextPageItemIndex = 0

\* C7: a failed list request is handed to the caller by Next: while the error
\* is pending the loop is not left (HasNext is true), Next returns that error
\* and no item, and by then every item of the pages listed before the
\* failure has been yielded, once and in order.
C7_PageErrorSurfacesThroughNext ==
    /\ executionIterator.pageErr # Nil => lpc \in {"loop", "body"}
    /\ \A k \in 1..Len(listCalls) :
        listCalls[k].resp.err # Nil =>
            /\ k = Len(listCalls)
            /\ yielded = FetchedBefore(k)
            /\ \/ /\ executionIterator.pageErr = listCalls[k].resp.err
                  /\ lpc \in {"loop", "body"}
               \/ /\ executionIterator.pageErr = Nil
                  /\ lpc = "returned"
                  /\ lastNext = [item |-> NoItem, err |-> listCalls[k].resp.err]
                  /\ listErr = PrintableError("Failed to scan shard ID: 0", listCalls[k].resp.err)

C7_Witness ==
    /\ lpc = "returned"
    /\ failAt = 3
    /\ Len(listCalls) = 3
    /\ listErr.cause = "ServiceBusy"
    /\ Len(yielded) = 2
    /\ Len(shardPages[1]) = 1

\* C8: a list request is made only when the buffered page is used up; the
\* first request carries the empty token, every later request carries the
\* token of the response just before it, which was not empty, and so no
\* request follows a response with an empty token (or a failed one).
C8_TokenChain ==
    \A k \in 1..Len(listCalls) :
        /\ listCalls[k].pending = 0
        /\ k = 1 => listCalls[k].request.PageToken = <<>>
        /\ k > 1 =>
            /\ listCalls[k - 1].resp.err = Nil
            /\ listCalls[k - 1].resp.PageToken # <<>>
            /\ listCalls[k].request.PageToken = listCalls[k - 1].resp.PageToken

C8_Witness ==
    /\ Len(listCalls) = 3
    /\ listCalls[3].request.PageToken = <<2>>
    /\ listCalls[3].resp.PageToken = <<>>
    /\ Len(yielded) = 2

\* ------------------------------------------------ properties of AdminDBScan
\* C11: in the targeted scan a fetch error or a serialization error for one
\* execution makes the scan pass over that execution only: when the command
\* returns after taking up at least one execution and checkExecution met no
\* error other than fetch errors, every execution of the parsed list was
\* taken up and the command returned no error
C11_ErrorSkipsOnlyThatExecution ==
    (/\ spc = "returned"
     /\ storeOutcomes # <<>>
     /\ \A i \in 1..Len(storeOutcomes) :
            storeOutcomes[i].err \in {Nil, "Error in fetching context: "})
        => (Len(storeOutcomes) = Len(data) /\ scanErr = NoError)

\* C12: the decode loop terminates for every finite input file, a file with
\* a malformed line followed by further lines included: every Decode call
\* either consumes one record of the file or ends the loop, so the loop is
\* left after at most one call more than the file has records
C12_DecodeLoopTerminates ==
    decodeCalls > Len(input) => spc # "decoding"

\* the requests among the first n records of the input file, in file order
RequestsIn(in, n) ==
    LET well == SelectSeq(SubSeq(in, 1, n), LAMBDA r : r.kind = "request") IN
    [i \in 1..Len(well) |-> [WorkflowID |-> well[i].WorkflowID]]

\* position of the first record that is not a well-formed request
FirstMalformed(in) ==
    IF \E i \in 1..Len(in) : in[i].kind # "request"
    THEN CHOOSE i \in 1..Len(in) :
            /\ in[i].kind # "request"
            /\ \A j \in 1..(i - 1) : in[j].kind = "request"
    ELSE Len(in) + 1

\* C13: the parsed list is, in input order, exactly the well-formed requests
\* among the records decoded so far (a subsequence of the file's well-formed
\* records, with nothing taken from a malformed record); once the loop has
\* ended or has met an error it holds every well-formed request that
\* precedes the first malformed record
C13_ParsedListIsOrderedSubsequence ==
    /\ data = RequestsIn(input, dec.pos - 1)
    /\ (decodeCalls > 0 /\ (spc # "decoding" \/ dec.err # Nil))
            => RequestsIn(input, FirstMalformed(input) - 1)
                    = SubSeq(data, 1, FirstMalformed(input) - 1)

\* a request, a record that is read and does not fit, and a second request:
\* the loop ended with both requests parsed
C13_Witness ==
    /\ spc = "loop"
    /\ Len(input) = 3
    /\ input[2].kind = "type"
    /\ data = <<[WorkflowID |-> input[1].WorkflowID], [WorkflowID |-> input[3].WorkflowID]>>

\* a request followed by a record that is not JSON: only the request is parsed
C13_WitnessSyntax ==
    /\ Len(input) = 3
    /\ input[1].kind = "request"
    /\ input[2].kind = "syntax"
    /\ input[3].kind = "request"
    /\ dec.err = "SyntaxError"
    /\ data = <<[WorkflowID |-> input[1].WorkflowID]>>

\* no execution taken up so far met an error: checkExecution returned no
\* error and the record was marshalled
NoScanErrors ==
    \A i \in 1..Len(storeOutcomes) :
        storeOutcomes[i].err = Nil /\ storeOutcomes[i].marshalled

\* C14: with no errors the targeted scan emits exactly one record per parsed
\* execution, in input order, and the record of execution i is emitted
\* before execution i+1 is fetched or checked: while checkExecution works on
\* element i of the parsed list, the records of elements 1..i-1 are all
\* printed, and when the command returns there is one record per element
C14_OneRecordPerExecutionStreamed ==
    NoScanErrors =>
        /\ Len(stdout) = Len(storeOutcomes)
        /\ \A i \in 1..Len(stdout) :
                stdout[i].Execution.workflowID = data[i].WorkflowID
        /\ spc = "checking" => Len(storeOutcomes) \in {scanIdx - 1, scanIdx}
        /\ (spc = "checking" /\ cpc # "returned") => Len(stdout) = scanIdx - 1
        /\ (spc = "returned" /\ scanErr = NoError) => Len(stdout) = Len(data)

\* two different executions were scanned without error and the command returned
C14_Witness ==
    /\ spc = "returned"
    /\ scanErr = NoError
    /\ NoScanErrors
    /\ Len(data) = 2
    /\ data[1] # data[2]
    /\ Len(stdout) = 2

\* the record the scan owes for a snapshot under the invariant factories fns
RecordOf(fns, ex) ==
    [Execution |-> ex,
     Result |-> RunChecks([j \in 1..Len(fns) |-> FactoryInvariant(fns[j])], ex)]

\* the records the scan owes for the answers the environment gave, in order
RecordsOf(fns, outcomes) ==
    LET emitted == SelectSeq(outcomes, LAMBDA o : o.err = Nil /\ o.marshalled) IN
    [i \in 1..Len(emitted) |-> RecordOf(fns, emitted[i].execution)]

\* C20: the targeted scan is deterministic: the records it has emitted are a
\* function of the parsed input, the invariant list and what the store
\* answered for each execution (its error or its snapshot, and whether the
\* record could be marshalled), so two runs that agree on these emit the same
\* sequence of records
C20_OutputDeterminedByInputs ==
    /\ stdout = RecordsOf(invariants, storeOutcomes)
    /\ \A i \in 1..Len(storeOutcomes) :
            storeOutcomes[i].err = Nil
                => storeOutcomes[i].execution.workflowID = data[i].WorkflowID
    /\ \A i \in 1..(Len(storeOutcomes) - 1) : storeOutcomes[i].err = Nil

\* two snapshots that the invariant judges differently were scanned and
\* their records emitted
C20_Witness ==
    /\ spc = "returned"
    /\ Len(stdout) = 2
    /\ stdout[1].Result.CheckResultType # stdout[2].Result.CheckResultType

\* ------------------------------------------------ properties of the range scan
\* the shards lo..hi in ascending order
ShardRange(lo, hi) == [i \in 1..(hi - lo + 1) |-> lo + i - 1]

\* C15: after a failure-free range scan over [lo, hi] every shard of the
\* range was scanned to its end and the output file holds, for each execution
\* of those shards that has execution info, close status 0 and no version
\* histories, exactly one line with its domain, workflow and run id, and no
\* other line
C15_OneLinePerUnsupportedExecution ==
    (rpc = "returned" /\ rangeErr = NoError)
        => /\ completed = ShardRange(startShardID, endShardID)
           /\ outputFile.written = storeLines

\* a scan over two shards or more returned without error and wrote lines
\* for executions of two shards
C15_Witness ==
    /\ rpc = "returned"
    /\ rangeErr = NoError
    /\ startShardID < endShardID
    /\ Len(outputFile.written) >= 2
    /\ outputFile.written[1].wid[1] # outputFile.written[2].wid[1]

\* a shard was scanned to its end and one of its two executions got no line
C15_WitnessNoLine ==
    /\ rpc = "scanning"
    /\ lpc = "returned"
    /\ listErr = NoError
    /\ Len(yielded) = 2
    /\ Len(outputFile.written) = 1

\* the lines written for the shard s, in file order
LinesOfShard(s) == SelectSeq(outputFile.written, LAMBDA l : l.wid[1] = s)

\* C16: the lines are in ascending shard order and, within a shard, in the
\* order the iterator yielded the executions: the file is ascending in
\* (shard, place in the shard's listing), and the lines of the shard being
\* scanned are those of the unsupported executions yielded so far, in the
\* order of the yields (the last one may still be waiting for its write)
C16_LinesInShardAndPaginationOrder ==
    /\ \A j, k \in 1..Len(outputFile.written) :
            j < k =>
                LET a == outputFile.written[j].wid
                    b == outputFile.written[k].wid IN
                a[1] < b[1] \/ (a[1] = b[1] /\ a[2] < b[2])
    /\ rpc = "scanning" =>
            LET ofYields == StoredResetCommands(<<yielded>>) IN
            \/ LinesOfShard(shardID) = ofYields
            \/ /\ lpc \in {"write", "returned"}
               /\ ofYields = Append(LinesOfShard(shardID), ofYields[Len(ofYields)])

\* lines of two shards, two of them of the same shard
C16_Witness ==
    /\ Len(outputFile.written) = 3
    /\ outputFile.written[1].wid[1] < outputFile.written[2].wid[1]
    /\ outputFile.written[2].wid[1] = outputFile.written[3].wid[1]

\* C17: every line is forced to disk before the next execution is taken
\* from the iterator, so at most one written line is not yet synced at any
\* time; a WriteString or a Sync that fails ends the scan of the shard with
\* an error: wherever the loop goes on or the scan ends without error, every
\* unsupported execution yielded so far has its line and all lines are
\* synced; a scan that ended with an unsynced line, or without the line of
\* the last execution, ended with the error of the Sync or of the WriteString
C17_SyncedBeforeNextExecution ==
    LET written == outputFile.written
        owed == StoredResetCommands(<<yielded>>) IN
    /\ Len(written) - outputFile.synced <= 1
    /\ (lpc \in {"loop", "body"} \/ (lpc = "returned" /\ listErr = NoError))
            => (outputFile.synced = Len(written) /\ written = owed)
    /\ (lpc = "returned" /\ outputFile.synced < Len(written))
            => listErr.msg = "Failed to sync data to file"
    /\ (lpc = "returned" /\ written # owed)
            => listErr.msg = "Failed to write data to file"

\* the Sync of the second line failed: one line is on disk, one is not, and
\* the scan of the shard ended with the error
C17_Witness ==
    /\ lpc = "returned"
    /\ listErr.msg = "Failed to sync data to file"
    /\ Len(outputFile.written) = 2
    /\ outputFile.synced = 1

\* a third execution was taken after two lines were written and synced
C17_WitnessSynced ==
    /\ Len(yielded) = 3
    /\ Len(outputFile.written) = 2
    /\ outputFile.synced = 2

\* C18: a page fetch that fails while shard s is scanned is fatal for the
\* shard: once Next has returned the error the scan of the shard is over,
\* its error names shard s and carries the store's error, only the
\* executions of the pages before the failed one were yielded, and the
\* shard's lines are those of the unsupported ones among them
C18_PageFailureFatalForShard ==
    (rpc \in {"scanning", "returned"} /\ lastNext.err # Nil)
        => /\ lpc = "returned"
           /\ listErr = [msg |-> "Failed to scan shard ID: " \o ToString(shardID),
                         cause |-> failErr]
           /\ lastNext.err = failErr
           /\ failAt > 0
           /\ yielded = Flatten(SubSeq(shardPages, 1, failAt - 1))
           /\ LinesOfShard(shardID) = StoredResetCommands(<<yielded>>)
           /\ rpc = "returned" => rangeErr = listErr

\* the second list request of shard 1 failed after an execution of the first
\* page got its line; the command returned the shard's error
C18_Witness ==
    /\ rpc = "returned"
    /\ shardID = 1
    /\ failAt = 2
    /\ lastNext.err # Nil
    /\ Len(LinesOfShard(1)) = 1
    /\ Len(Flatten(shardPages)) = 2
    /\ Len(yielded) = 1

\* ------------------------------------------------ properties of both scan commands
\* the execution store handles held by the two commands
StoreHandles == <<execManager, client>>

OpenStoreHandles == {i \in 1..Len(StoreHandles) : StoreHandles[i] = "open"}

\* C19: store handles are scoped: at most one execution store handle is
\* open at any time; the handle opened for one execution lookup or for one
\* shard is closed when that call has returned, on every return path, so
\* none is open when the next one is opened or when the command returns
C19_StoreHandlesScoped ==
    /\ Cardinality(OpenStoreHandles) <= 1
    /\ cpc \in {"idle", "start", "returned"} => execManager # "open" /\ historyV2Mgr # "open"
    /\ lpc \in {"idle", "start", "returned"} => client # "open"
    /\ (spc = "returned" \/ rpc = "returned") => OpenStoreHandles = {}

\* the targeted scan returned after two lookups, each of which had opened
\* and closed its handle
C19_Witness ==
    /\ spc = "returned"
    /\ Len(storeOutcomes) = 2
    /\ execManager = "closed"

\* the range scan returned with the error of the second shard it scanned,
\* whose handle is closed
C19_WitnessRange ==
    /\ rpc = "returned"
    /\ rangeErr # NoError
    /\ Len(completed) = 1
    /\ client = "closed"

IsPrefix(a, b) == Len(a) <= Len(b) /\ SubSeq(b, 1, Len(a)) = a

\* a step on which one of the two commands or one of their calls fails
FailureStep ==
    \/ scanErr' # scanErr
    \/ rangeErr' # rangeErr
    \/ listErr' # listErr /\ listErr' # NoError
    \/ cpc' = "returned" /\ cpc # "returned" /\ ret'.err # Nil

\* C21: the output of both commands is append-only: every step leaves the
\* records printed and the lines written (and synced) so far in place and
\* at most adds to them, and a step on which a call or the command fails
\* adds nothing; so what a run has emitted when it aborts is a prefix of
\* what it emits when the failing step succeeds instead
C21_OutputAppendOnly ==
    [][ /\ IsPrefix(stdout, stdout')
        /\ IsPrefix(outputFile.written, outputFile'.written)
        /\ outputFile.synced <= outputFile'.synced
        /\ FailureStep => (stdout' = stdout /\ outputFile' = outputFile)
      ]_vars

\* the range scan was aborted by the error of a later shard with the lines
\* of an earlier shard written and synced
C21_Witness ==
    /\ rpc = "returned"
    /\ rangeErr # NoError
    /\ Len(completed) >= 1
    /\ Len(storeLines) = 2
    /\ outputFile.written = storeLines
    /\ outputFile.synced = 2

\* the targeted scan was aborted at its second execution with the record of
\* the first one printed
C21_WitnessScan ==
    /\ spc = "returned"
    /\ scanErr # NoError
    /\ Len(storeOutcomes) = 2
    /\ Len(stdout) = 1

\* C22: a range scan given a lower shard bound greater than the upper shard
\* bound aborts with an error: it does not return a success result
C22_InvalidShardRangeIsFatal ==
    (rpc = "returned" /\ startShardID > endShardID) => rangeErr # NoError

\* C23: once the scan of shard s has returned an error the command returns
\* that error at once: the failed call is the last one made (no later shard
\* is opened or scanned), and the completion message has been printed
\* exactly for the shards lo..s-1; a message is printed for a shard only
\* after its scan went through all its pages without error, so whenever the
\* loop is at its head the lines of all the shards with a message are written
C23_ShardErrorEndsCommand ==
    /\ rpc \in {"loop", "scanning"} => completed = ShardRange(startShardID, shardID - 1)
    /\ rpc = "scanning" => shardID \in startShardID..endShardID
    /\ rpc = "loop" => (listErr = NoError /\ outputFile.written = storeLines)
    /\ listErr # NoError =>
            /\ rpc \in {"scanning", "returned"}
            /\ lpc = "returned"
            /\ shardID \in startShardID..endShardID
            /\ completed = ShardRange(startShardID, shardID - 1)
            /\ rpc = "returned" => rangeErr = listErr

\* the scan of shard 1 of the range 0..2 failed: the command returned its
\* error with the message of shard 0 printed and shard 2 never taken up
C23_Witness ==
    /\ rpc = "returned"
    /\ rangeErr = listErr
    /\ listErr # NoError
    /\ startShardID = 0
    /\ endShardID = 2
    /\ shardID = 1
    /\ completed = <<0>>

\* ------------------------------------------------ set-up failures of checkExecution
\* one of the set-up steps of checkExecution has failed: the execution
\* store or the context is missing at the return, or the history store
\* handle is not an opened one
SetupFailed ==
    \/ historyV2Mgr = "invalid"
    \/ cpc = "returned" /\ execManager = Nil
    \/ cpc = "returned" /\ ctxState = Nil

\* C24: whenever a set-up step of checkExecution has failed (opening the
\* execution store, opening the history store, creating the context) the
\* function does not go on to fetch the execution or to run an invariant,
\* and it returns an error
C24_SetupFailureReturnsError ==
    SetupFailed =>
        /\ cpc \notin {"fetching", "fetched", "checking"}
        /\ execution = NoExecution
        /\ checkCalls = <<>>
        /\ cpc = "returned" => ret.err # Nil

\* the positions in the request log where a workflow start was asked for
StartsIn(log) == {i \in 1..Len(log) : log[i].op = "StartWorkflowExecution"}

\* C25: a failover is started only with start params that pass validation, and, when
\* the drill wait time is not positive, only without a cron schedule and right after
\* a pause signal to the drill workflow that succeeded or was answered with
\* entity-not-exists or workflow-already-completed
C25_PauseBeforeStart ==
    \A i \in StartsIn(requests) :
        /\ params.targetCluster # ""
        /\ params.sourceCluster # ""
        /\ params.targetCluster # params.sourceCluster
        /\ requests[i].input.DrillWaitTime = params.drillWaitTime
        /\ params.drillWaitTime <= 0 =>
              /\ params.cron = ""
              /\ i > 1
              /\ requests[i - 1].op = "SignalWorkflowExecution"
              /\ requests[i - 1].workflowID = DrillWorkflowID
              /\ requests[i - 1].signal = PauseSignal
              /\ requests[i - 1].resp \in {"ok", "*types.EntityNotExistsError",
                                           "*types.WorkflowExecutionAlreadyCompletedError"}

C25_Witness ==
    /\ command = "start"
    /\ fpc = "returned"
    /\ foErr = NoError
    /\ params.drillWaitTime = 0
    /\ Len(requests) = 2
    /\ requests[1].op = "SignalWorkflowExecution"
    /\ requests[1].resp = "*types.EntityNotExistsError"
    /\ requests[2].op = "StartWorkflowExecution"

\* C26: in a rollback the failover workflow is terminated exactly when the first query
\* reported it running or paused; a successful termination is followed by the second
\* query; a failover that is started goes from the second query's target cluster to
\* its source cluster, for its success domains followed by its failed domains; and
\* no failover is started after a failed query or a failed termination
C26_RollbackReversesFailover ==
    command = "rollback" =>
        /\ \A i \in 1..Len(requests) :
              requests[i].op = "TerminateWorkflowExecution" =>
                  /\ i = 2
                  /\ requests[1] = QueryRequest("ok")
        /\ (Len(queryLog) >= 1 /\ fpc # "terminating") =>
              (queryLog[1].State \in {"running", "paused"}
                  <=> (Len(requests) >= 2 /\ requests[2].op = "TerminateWorkflowExecution"))
        /\ (Len(requests) >= 2 /\ requests[2].op = "TerminateWorkflowExecution"
                /\ requests[2].resp = "ok" /\ fpc # "query2") =>
              (Len(requests) >= 3 /\ requests[3].op = "QueryWorkflow")
        /\ \A i \in 1..Len(requests) :
              (requests[i].op \in {"QueryWorkflow", "TerminateWorkflowExecution"}
                  /\ requests[i].resp # "ok") =>
                  /\ i = Len(requests)
                  /\ fpc = "returned"
                  /\ foErr # NoError
        /\ \A i \in StartsIn(requests) :
              /\ Len(queryLog) = 2
              /\ requests[i].workflowID = FailoverWorkflowID
              /\ requests[i].input.TargetCluster = queryLog[2].SourceCluster
              /\ requests[i].input.SourceCluster = queryLog[2].TargetCluster
              /\ requests[i].input.Domains =
                    queryLog[2].SuccessDomains \o queryLog[2].FailedDomains

C26_Witness ==
    /\ command = "rollback"
    /\ fpc = "returned"
    /\ foErr = NoError
    /\ Len(requests) = 5
    /\ requests[2].op = "TerminateWorkflowExecution"
    /\ requests[5].op = "StartWorkflowExecution"
    /\ queryLog[1].State = "paused"
    /\ queryLog[2].State = "aborted"
    /\ queryLog[1].TargetCluster # queryLog[2].TargetCluster
    /\ queryLog[1].SuccessDomains # queryLog[2].SuccessDomains
    /\ requests[5].input.Domains = <<"moved-1", "stuck-1", "stuck-2">>

\* the positions in the log of store calls of the calls of one kind
OpsOf(kind) == {i \in 1..Len(storeOps) : storeOps[i].op = kind}

DirectDeletions ==
    {"DeleteHistoryBranch", "DeleteWorkflowExecution", "DeleteCurrentWorkflowExecution"}

\* without skip-errors: the execution row is deleted only after every history branch
\* was deleted successfully, the current-execution row only after the execution row
\* was, and a deletion that fails is the last one
DeleteOrderedWhenStrict ==
    (~remote /\ ~skipError) =>
        /\ \A i \in OpsOf("DeleteWorkflowExecution") :
              \A b \in 1..Len(BranchTokensOf(ms)) :
                  \E j \in OpsOf("DeleteHistoryBranch") :
                      j < i /\ storeOps[j].branch = b /\ storeOps[j].resp = "ok"
        /\ \A i \in OpsOf("DeleteCurrentWorkflowExecution") :
              \E j \in OpsOf("DeleteWorkflowExecution") : j < i /\ storeOps[j].resp = "ok"
        /\ \A i \in 1..Len(storeOps) :
              (storeOps[i].op \in DirectDeletions /\ storeOps[i].resp # "ok") =>
                  /\ dpc = "returned"
                  /\ delErr # NoError
                  /\ \A j \in 1..Len(storeOps) : storeOps[j].op \in DirectDeletions => j <= i

\* with skip-errors: once the stores are open, the command ends only after it asked
\* for the deletion of every history branch, of the execution row and of the
\* current-execution row
DeleteAllAttemptedWhenSkipping ==
    (~remote /\ skipError /\ dpc = "returned" /\ OpsOf("initializeExecutionStore") # {}) =>
        /\ \A b \in 1..Len(BranchTokensOf(ms)) :
              \E j \in OpsOf("DeleteHistoryBranch") : storeOps[j].branch = b
        /\ OpsOf("DeleteWorkflowExecution") # {}
        /\ OpsOf("DeleteCurrentWorkflowExecution") # {}

\* with the remote flag nothing is deleted through the stores
RemoteDeletesNothingDirectly ==
    remote => \A i \in 1..Len(storeOps) : storeOps[i].op = "adminClient.DeleteWorkflow"

\* C27: in the non-remote AdminDeleteWorkflow without skip-errors the deletions are
\* ordered and stop at the first failure; with skip-errors every step is attempted
\* whatever failed before; with the remote flag no store is asked to delete
C27_DeletionOrderedOrSkipping ==
    /\ DeleteOrderedWhenStrict
    /\ DeleteAllAttemptedWhenSkipping
    /\ RemoteDeletesNothingDirectly

====
